---- MODULE Spec2Model ----
(***************************************************************************)
(* Model of the Raydium sniper bot: the execution engine                   *)
(* (Sniper::execute_buy, send_transaction_with_retry,                      *)
(* wait_for_confirmation, with the caller's report in run_snipe_loop) and  *)
(* the pool detector's adapter selection (PoolDetector::start_detection).  *)
(***************************************************************************)
EXTENDS Integers, Sequences, FiniteSets, TLC

(***************************************************************************)
(* Bounds of the model.                                                    *)
(***************************************************************************)
\* bytes of a signature in the model (64 on chain)
SigLen == 2
\* a status RPC takes 0..MaxRpcLatencyTicks poll intervals to answer
MaxRpcLatencyTicks == 1
\* polling rounds of the fallback adapter that are followed
MaxPollRounds == 2

(***************************************************************************)
(* Program constants.                                                      *)
(***************************************************************************)
\* sniper.rs:196  send_transaction_with_retry(versioned_tx, 3)
max_retries == 3
\* sniper.rs:271  Duration::from_millis(1000 * attempt)
BackoffUnitMs == 1000
\* sniper.rs:289  MAX_WAIT_TIME = 30 s, in ms
MAX_WAIT_TIME == 30000
\* sniper.rs:290  POLL_INTERVAL = 500 ms
POLL_INTERVAL == 500
\* utils.rs:50    rng.gen_range(0..50_000)
JitterRange == 50000
\* config.rs:61   priority_fee_micro_lamports default
DefaultPriorityFee == 100000
\* config.rs:69   max_compute_units default
DefaultComputeUnits == 1400000
\* config.rs:62   min_liquidity_usd default
DefaultMinLiquidity == 1000

VARIABLES
    config,       \* the Config snapshot shared by detector and sniper
    event,        \* the PoolCreationEvent handed to execute_buy
    pc,           \* position of the orchestrator task inside execute_buy
    blockhash,    \* local `blockhash` of execute_buy
    transaction,  \* local `transaction` of execute_buy, then its `versioned_tx`
    signedTx,     \* history: the transaction as it left transaction.sign
    signCount,    \* history: number of wallet signing operations
    calls,        \* history: get_latest_blockhash and send_transaction calls issued
    polled,       \* history: get_signature_status was called
    sent,         \* history: one entry per send_transaction call
    delays,       \* history: the backoff delays slept, in ms
    attempt,      \* loop variable of send_transaction_with_retry
    last_error,   \* local `last_error` of send_transaction_with_retry
    signature,    \* the signature returned by an accepted send_transaction
    elapsed,      \* start.elapsed() of wait_for_confirmation, in ms
    confResult,   \* the Result of wait_for_confirmation
    result,       \* the Result<String> of execute_buy
    report,       \* what run_snipe_loop logs for the result
    dpc,          \* position inside start_detection
    geyserRes,    \* the Result of start_geyser_stream
    detResult,    \* the Result of start_detection
    tasks,        \* background tasks spawned (tokio::spawn)
    watched,      \* the program ids each adapter task asks the network for
    pollRound,    \* rounds completed by the polling task
    mainPc,       \* position of main
    exitStatus,   \* the exit status of the process, once main has returned
    exitCause,    \* which arm of main ended the process
    fpc,          \* position inside evaluate_pool
    chain,        \* what the network holds about the event's pool
    checksRun,    \* history: the checks evaluate_pool started, in order
    liqRes,       \* the Result of check_liquidity, once awaited
    rugRes,       \* the Result of check_rug_indicators, once awaited
    verdict,      \* the Result<bool> of evaluate_pool
    ppc,          \* position of the polling task inside its loop
    progIdx,      \* index of `program_id` in the polling task's program_ids
    pending,      \* signatures of the current reply not yet examined
    last_signatures, \* local HashSet of the polling task
    queue,        \* the mpsc channel between adapter and orchestrator
    emitted,      \* history: the events the adapter sent, in order
    skipped,      \* history: signatures the polling task skipped as seen
    fetched,      \* history: get_transaction calls of the polling task and how each ended
    opc,          \* position of run_snipe_loop inside its while loop
    taken,        \* history: the events event_stream.next() returned, in order
    evaluated,    \* history: the events whose evaluate_pool returned, in order
    handled,      \* history: the events whose rate-limit delay ended, in order
    inFlight,     \* execute_buy calls started and not yet returned
    executed,     \* history: the events execute_buy was called for, in order
    verdicts,     \* history: what evaluate_pool returned, one entry per evaluated event
    spc,          \* position of the streaming task inside its loop
    held,         \* the event the streaming task is sending while it waits
    ixBytes,      \* the `data` argument of is_pool_initialization
    recognised,   \* what the calls of is_pool_initialization returned, in order
    ixn,          \* the arguments of parse_pool_instruction and parse_pool_creation
    extracted,    \* outcome of parse_pool_instruction
    created,      \* outcome of parse_pool_creation
    calcIn,       \* the arguments of calculate_min_amount_out
    calcOut,      \* outcome of calculate_min_amount_out
    calcLog       \* history: slippage_bps and outcome of every call made for the amount

execLocals == <<pc, blockhash, transaction, signedTx, signCount, calls, polled, sent,
                delays, attempt, last_error, signature, elapsed, confResult, result,
                report>>
execVars == <<event, execLocals>>
detVars == <<dpc, geyserRes, detResult, tasks, watched, pollRound>>
mainVars == <<mainPc, exitStatus, exitCause>>
filterVars == <<fpc, chain, checksRun, liqRes, rugRes, verdict>>
adapterVars == <<ppc, progIdx, pending, last_signatures, emitted, skipped, fetched>>
loopVars == <<opc, taken, evaluated, handled, inFlight, executed, verdicts>>
streamVars == <<spc, held>>
pipeVars == <<adapterVars, streamVars, queue, loopVars>>
codecVars == <<ixBytes, recognised, ixn, extracted, created>>
calcVars == <<calcIn, calcOut, calcLog>>
pureVars == <<codecVars, calcVars>>
notMainVars == <<filterVars, pipeVars, pureVars>>
restVars == <<mainVars, notMainVars>>
vars == <<config, execVars, detVars, restVars>>

None == [tag |-> "None"]
Ok(v) == [tag |-> "Ok", value |-> v]
Some(v) == [tag |-> "Some", value |-> v]
Err(stage, e) == [tag |-> "Err", stage |-> stage, err |-> e]

(***************************************************************************)
(* Strings that reach the caller are sequences of characters, so that a    *)
(* signature string and the dry-run tag can be compared by content.        *)
(***************************************************************************)
Range(s) == {s[i] : i \in DOMAIN s}

\* sniper.rs:127  "dry_run_simulation".to_string()
DryRunString ==
    <<"d","r","y","_","r","u","n","_","s","i","m","u","l","a","t","i","o","n">>

\* the base58 alphabet of bs58 (Bitcoin): no 0, O, I, l and no punctuation
Base58Alphabet ==
    <<"1","2","3","4","5","6","7","8","9",
      "A","B","C","D","E","F","G","H","J","K","L","M","N","P","Q","R","S","T","U",
      "V","W","X","Y","Z",
      "a","b","c","d","e","f","g","h","i","j","k","m","n","o","p","q","r","s","t",
      "u","v","w","x","y","z">>

RECURSIVE BytesToNat(_)
BytesToNat(bytes) ==
    IF bytes = <<>> THEN 0
    ELSE 256 * BytesToNat(SubSeq(bytes, 1, Len(bytes) - 1)) + bytes[Len(bytes)]

RECURSIVE Base58Digits(_)
Base58Digits(n) ==
    IF n = 0 THEN <<>>
    ELSE Base58Digits(n \div 58) \o <<Base58Alphabet[(n % 58) + 1]>>

RECURSIVE LeadingZeros(_)
LeadingZeros(bytes) ==
    IF bytes = <<>> \/ bytes[1] # 0 THEN 0
    ELSE 1 + LeadingZeros(Tail(bytes))

\* bs58 encoding: every leading zero byte becomes the first letter of the
\* alphabet, the rest is the number in base 58
Base58Encode(bytes) ==
    [i \in 1..LeadingZeros(bytes) |-> Base58Alphabet[1]] \o Base58Digits(BytesToNat(bytes))

\* Signature::to_string
SignatureToString(sig) == Base58Encode(sig)

\* Pubkey::to_string
PubkeyToString(key) == Base58Encode(key)

SigByteValues == {0, 255}
Signatures == [1..SigLen -> SigByteValues]

(***************************************************************************)
(* Naturals beyond 32 bits (the number behind a base58 text, a u64, the    *)
(* mantissa of an f64) are little-endian sequences of 15-bit limbs without *)
(* leading zero limbs.                                                     *)
(***************************************************************************)
LimbBits == 15
LimbBase == 32768
MantissaBits == 53
U64Bits == 64
U16Modulus == 65536
BpsDenominator == 10000

Limb(x, i) == IF i \in DOMAIN x THEN x[i] ELSE 0
Zeros(n) == [i \in 1..n |-> 0]

RECURSIVE BigNorm(_)
BigNorm(x) ==
    IF x = <<>> \/ x[Len(x)] # 0 THEN x ELSE BigNorm(SubSeq(x, 1, Len(x) - 1))

RECURSIVE BigFromNat(_)
BigFromNat(n) == IF n = 0 THEN <<>> ELSE <<n % LimbBase>> \o BigFromNat(n \div LimbBase)

RECURSIVE BigAddFrom(_, _, _, _)
BigAddFrom(x, y, i, carry) ==
    IF i > Len(x) /\ i > Len(y)
    THEN IF carry = 0 THEN <<>> ELSE <<carry>>
    ELSE <<(Limb(x, i) + Limb(y, i) + carry) % LimbBase>>
         \o BigAddFrom(x, y, i + 1, (Limb(x, i) + Limb(y, i) + carry) \div LimbBase)

BigAdd(x, y) == BigAddFrom(x, y, 1, 0)

RECURSIVE BigMulLimb(_, _, _, _)
BigMulLimb(x, k, i, carry) ==
    IF i > Len(x)
    THEN IF carry = 0 THEN <<>> ELSE <<carry>>
    ELSE <<(x[i] * k + carry) % LimbBase>>
         \o BigMulLimb(x, k, i + 1, (x[i] * k + carry) \div LimbBase)

RECURSIVE BigMulFrom(_, _, _)
BigMulFrom(x, y, j) ==
    IF j > Len(y) THEN <<>>
    ELSE BigAdd(Zeros(j - 1) \o BigMulLimb(x, y[j], 1, 0), BigMulFrom(x, y, j + 1))

BigMul(x, y) == BigNorm(BigMulFrom(x, y, 1))

\* quotient and remainder of a division by k <= LimbBase, from the top limb
RECURSIVE BigDivFrom(_, _, _, _)
BigDivFrom(x, k, i, rem) ==
    IF i = 0 THEN [q |-> <<>>, r |-> rem]
    ELSE [q |-> BigDivFrom(x, k, i - 1, (rem * LimbBase + x[i]) % k).q
                \o <<(rem * LimbBase + x[i]) \div k>>,
          r |-> BigDivFrom(x, k, i - 1, (rem * LimbBase + x[i]) % k).r]

BigDivSmall(x, k) ==
    [q |-> BigNorm(BigDivFrom(x, k, Len(x), 0).q), r |-> BigDivFrom(x, k, Len(x), 0).r]

\* x <= y
BigLeq(x, y) ==
    \/ Len(x) < Len(y)
    \/ /\ Len(x) = Len(y)
       /\ \A i \in DOMAIN x : x[i] > y[i] => \E j \in DOMAIN x : j > i /\ x[j] < y[j]

RECURSIVE SmallBitLen(_)
SmallBitLen(n) == IF n = 0 THEN 0 ELSE 1 + SmallBitLen(n \div 2)

BitLen(x) == IF x = <<>> THEN 0 ELSE LimbBits * (Len(x) - 1) + SmallBitLen(x[Len(x)])

ShiftLeft(x, s) ==
    IF x = <<>> THEN <<>>
    ELSE Zeros(s \div LimbBits) \o BigMulLimb(x, 2 ^ (s % LimbBits), 1, 0)

\* a call that ended with a panic instead of a value
Panic == [tag |-> "Panic"]

U64_MAX == <<32767, 32767, 32767, 32767, 15>>

\* the low 64 bits of a natural below 2^75
WrapU64(x) ==
    BigNorm([i \in DOMAIN x |-> IF i = Len(U64_MAX) THEN x[i] % (U64_MAX[i] + 1) ELSE x[i]])

(***************************************************************************)
(* Inputs.                                                                 *)
(***************************************************************************)
PoolTypes == {"AMMv4", "CPMM"}
Blockhashes == {"hashA", "hashB"}
RpcErrors == {"rpc_timeout", "rpc_refused"}
RpcLatencies == {k * POLL_INTERVAL : k \in 0..MaxRpcLatencyTicks}
Jitters == {0, JitterRange - 1}

\* PRIORITY_FEE_MICRO_LAMPORTS is any u64 (config.rs:105-108): the default and
\* the largest
PriorityFeeBases == {BigFromNat(DefaultPriorityFee), U64_MAX}

\* config.rs:70
DefaultSlippageBps == 50

\* config.rs:150-153: SLIPPAGE_BPS is any u16; the default and one past 10000
SlippageSettings == {DefaultSlippageBps, BpsDenominator + 1}

\* the fee base and the slippage of a configuration: the defaults, and each
\* of the two away from its default
FeeAndSlippage ==
    {<<f, b>> \in PriorityFeeBases \X SlippageSettings :
        f = BigFromNat(DefaultPriorityFee) \/ b = DefaultSlippageBps}

\* Config::default with the fields the modelled code reads
DefaultConfig ==
    [ yellowstone_grpc_url        |-> FALSE,
      use_websocket_fallback      |-> TRUE,
      monitor_amm_v4              |-> TRUE,
      monitor_cpmm                |-> TRUE,
      dry_run                     |-> TRUE,
      blacklisted_creators        |-> <<>>,
      min_liquidity_usd           |-> DefaultMinLiquidity,
      max_liquidity_usd           |-> None,
      priority_fee_micro_lamports |-> BigFromNat(DefaultPriorityFee),
      max_compute_units           |-> DefaultComputeUnits,
      slippage_bps                |-> DefaultSlippageBps ]

Events == [pool : {"poolA"}, pool_type : PoolTypes]
NoEvent == [pool |-> "none", pool_type |-> "none"]


(***************************************************************************)
(* Instructions and transactions.                                          *)
(***************************************************************************)
\* ComputeBudgetInstruction::set_compute_unit_price / set_compute_unit_limit
set_compute_unit_price(fee) == [kind |-> "set_compute_unit_price", arg |-> fee]
set_compute_unit_limit(units) == [kind |-> "set_compute_unit_limit", arg |-> units]

\* Vec::insert(index, element), index counted from 0
Insert(seq, index, x) ==
    SubSeq(seq, 1, index) \o <<x>> \o SubSeq(seq, index + 1, Len(seq))

\* Transaction::new_with_payer: no blockhash and no signature yet
new_with_payer(instructions) ==
    [instructions |-> instructions, recent_blockhash |-> "unset", signatures |-> <<>>]

NoTransaction == new_with_payer(<<>>)

\* build_amm_v4_swap always bails
build_amm_v4_swap(pool) == Err("build", "amm_v4_not_implemented")

\* instructions.rs:93-127: the account metas in their order; the program id
\* constant always parses
build_cpmm_swap_instruction(user, pool, user_source_token_account, user_dest_token_account, pool_source_token_account, pool_dest_token_account) ==
    Ok([kind     |-> "cpmm_swap",
        arg      |-> pool,
        accounts |-> <<user, pool, user_source_token_account, user_dest_token_account,
                       pool_source_token_account, pool_dest_token_account,
                       "system_program">>])

\* sniper.rs:227-241: the wallet stands for both user token accounts and the
\* pool for both pool token accounts
build_cpmm_swap(pool) ==
    build_cpmm_swap_instruction("wallet", pool, "wallet", "wallet", pool, pool)

\* the match on event.pool_type in execute_buy
BuildSwap(ev) ==
    IF ev.pool_type = "AMMv4" THEN build_amm_v4_swap(ev.pool)
    ELSE build_cpmm_swap(ev.pool)

\* utils.rs:56, `10000 - slippage_bps` in u16: past 10000 the subtraction
\* overflows, which panics with overflow checks and wraps without them
SubtractFromDenominator(slippage_bps) ==
    IF slippage_bps <= BpsDenominator
    THEN {Ok(BpsDenominator - slippage_bps)}
    ELSE {Panic, Ok((BpsDenominator - slippage_bps) % U16Modulus)}

\* utils::estimate_priority_fee (utils.rs:42-52): base fee plus jitter in u64;
\* past u64::MAX the addition overflows, which panics with overflow checks and
\* wraps without them
estimate_priority_fee(base_fee_micro_lamports, jitter) ==
    LET sum == BigAdd(base_fee_micro_lamports, BigFromNat(jitter)) IN
      IF BitLen(sum) <= U64Bits THEN {Ok(sum)} ELSE {Panic, Ok(WrapU64(sum))}

AddBudgetWithoutLimit(tx, price_ix, limit_ix) ==
    [tx EXCEPT !.instructions = Insert(@, 0, price_ix)]

\* transaction.instructions.insert(0, priority_fee_ix); insert(1, compute_unit_limit_ix)
AddBudgetInstructions(tx, price_ix, limit_ix) ==
    [tx EXCEPT !.instructions = Insert(Insert(@, 0, price_ix), 1, limit_ix)]

\* transaction.sign(&[keypair], blockhash)
Sign(tx, sig, hash) == [tx EXCEPT !.recent_blockhash = hash, !.signatures = <<sig>>]

\* VersionedTransaction::from(transaction): the same signatures around the
\* legacy message
VersionedTransactionFrom(tx) ==
    [signatures |-> tx.signatures,
     message |-> [version |-> "legacy",
                  instructions |-> tx.instructions,
                  recent_blockhash |-> tx.recent_blockhash]]

NeverDryRun(cfg) == FALSE

\* if self.config.dry_run
DryRunShortCircuit(cfg) == cfg.dry_run

ErrorSwallowed(res, next) == next

\* the `?` after get_latest_blockhash (sniper.rs:142) and after the swap
\* construction (sniper.rs:160, 165): an Err returns from execute_buy
QuestionMark(res, next) == IF res.tag = "Err" THEN "returned" ELSE next

BackoffDelayConstant(n) == BackoffUnitMs

\* Duration::from_millis(1000 * attempt as u64)
BackoffDelay(n) == BackoffUnitMs * n

KeepFirstError(last, e) == IF last = None THEN Some(e) ELSE last

\* last_error = Some(e)
NextLastError(last, e) == Some(e)

RetryOnConfirmationError(conf) == IF conf.tag = "Err" THEN "send_loop" ELSE "returned"

\* after wait_for_confirmation the Ok arm returns, whatever the wait gave
AfterConfirmation(conf) == "returned"

\* the replies of get_signature_status
StatusReplies ==
    [kind : {"some"}, err : BOOLEAN, confirmation_status : BOOLEAN]
    \cup {[kind |-> "none"], [kind |-> "rpc_error"]}

Bump(c, method) == [c EXCEPT ![method] = @ + 1]

(***************************************************************************)
(* Sniper::execute_buy                                                     *)
(***************************************************************************)
\* sniper.rs:121-128: the dry-run short circuit
ExecuteBuyEnter ==
    /\ pc = "call"
    /\ IF DryRunShortCircuit(config)
       THEN /\ result' = Ok(DryRunString)
            /\ pc' = "returned"
       ELSE /\ pc' = "blockhash"
            /\ UNCHANGED result
    /\ UNCHANGED <<config, restVars, event, blockhash, transaction, signedTx, signCount, calls, polled,
                   sent, delays, attempt, last_error, signature, elapsed, confResult,
                   report, detVars>>

\* sniper.rs:138-142: get_latest_blockhash, fatal on error
GetLatestBlockhash ==
    /\ pc = "blockhash"
    /\ calls' = Bump(calls, "get_latest_blockhash")
    /\ \/ \E h \in Blockhashes :
            /\ blockhash' = h
            /\ pc' = QuestionMark(Ok(h), "build")
            /\ UNCHANGED result
       \/ \E e \in RpcErrors :
            /\ result' = Err("blockhash", e)
            /\ pc' = QuestionMark(result', "build")
            /\ UNCHANGED blockhash
    /\ UNCHANGED <<config, restVars, event, transaction, signedTx, signCount, polled, sent,
                   delays, attempt, last_error, signature, elapsed, confResult, report,
                   detVars>>

\* sniper.rs:145-173: calculate_min_amount_out, whose subtraction may panic,
\* then the swap instruction and Transaction::new_with_payer
BuildTransaction ==
    /\ pc = "build"
    /\ \E difference \in SubtractFromDenominator(config.slippage_bps) :
         LET swap == BuildSwap(event) IN
           IF difference.tag = "Panic"
           THEN /\ pc' = "panicked"
                /\ UNCHANGED <<transaction, result>>
           ELSE IF swap.tag = "Err"
           THEN /\ result' = swap
                /\ pc' = QuestionMark(swap, "budget")
                /\ UNCHANGED transaction
           ELSE /\ transaction' = new_with_payer(<<swap.value>>)
                /\ pc' = QuestionMark(swap, "budget")
                /\ UNCHANGED result
    /\ UNCHANGED <<config, restVars, event, blockhash, signedTx, signCount, calls, polled, sent, delays,
                   attempt, last_error, signature, elapsed, confResult, report, detVars>>

\* sniper.rs:176-188: the two budget instructions go in front of the swap
AddBudget ==
    /\ pc = "budget"
    /\ \E jitter \in Jitters :
         \E priority_fee \in estimate_priority_fee(config.priority_fee_micro_lamports, jitter) :
            IF priority_fee.tag = "Panic"
            THEN /\ pc' = "panicked"
                 /\ UNCHANGED transaction
            ELSE /\ transaction' =
                        AddBudgetInstructions(transaction,
                                              set_compute_unit_price(priority_fee.value),
                                              set_compute_unit_limit(config.max_compute_units))
                 /\ pc' = "sign"
    /\ UNCHANGED <<config, restVars, event, blockhash, signedTx, signCount, calls, polled, sent, delays,
                   attempt, last_error, signature, elapsed, confResult, result, report,
                   detVars>>

\* sniper.rs:190-196: sign, convert to a VersionedTransaction, then enter
\* send_transaction_with_retry with it
SignTransaction ==
    /\ pc = "sign"
    /\ \E sig \in Signatures : signedTx' = Sign(transaction, sig, blockhash)
    /\ transaction' = VersionedTransactionFrom(signedTx')
    /\ signCount' = signCount + 1
    /\ attempt' = 1
    /\ last_error' = None
    /\ pc' = "send_loop"
    /\ UNCHANGED <<config, restVars, event, blockhash, calls, polled, sent, delays, signature, elapsed,
                   confResult, result, report, detVars>>

(***************************************************************************)
(* Sniper::send_transaction_with_retry                                     *)
(***************************************************************************)
\* sniper.rs:252-276: one pass of `for attempt in 1..=max_retries` up to the
\* reply of send_transaction
SendAttempt ==
    /\ pc = "send_loop"
    /\ attempt <= max_retries
    /\ calls' = Bump(calls, "send_transaction")
    /\ \/ /\ sent' = Append(sent, [tx |-> transaction, attempt |-> attempt,
                                   reply |-> Ok(transaction.signatures[1])])
          /\ signature' = transaction.signatures[1]
          /\ elapsed' = 0
          /\ pc' = "wfc_check"
          /\ UNCHANGED <<last_error, attempt>>
       \/ \E e \in RpcErrors :
            /\ sent' = Append(sent, [tx |-> transaction, attempt |-> attempt,
                                     reply |-> Err("send", e)])
            /\ last_error' = NextLastError(last_error, e)
            /\ IF attempt < max_retries
               THEN pc' = "backoff" /\ UNCHANGED attempt
               ELSE pc' = "send_loop" /\ attempt' = attempt + 1
            /\ UNCHANGED <<signature, elapsed>>
    /\ UNCHANGED <<config, restVars, event, blockhash, transaction, signedTx, signCount, polled,
                   delays, confResult, result, report, detVars>>

\* sniper.rs:270-274: sleep(1000 ms * attempt), then the next pass
Backoff ==
    /\ pc = "backoff"
    /\ delays' = Append(delays, BackoffDelay(attempt))
    /\ attempt' = attempt + 1
    /\ pc' = "send_loop"
    /\ UNCHANGED <<config, restVars, event, blockhash, transaction, signedTx, signCount, calls, polled,
                   sent, last_error, signature, elapsed, confResult, result, report,
                   detVars>>

\* sniper.rs:279-281: the loop ran out, the last error is returned
RetriesExhausted ==
    /\ pc = "send_loop"
    /\ attempt > max_retries
    /\ result' = Err("send", IF last_error = None THEN "failed_after_retries"
                             ELSE last_error.value)
    /\ pc' = "returned"
    /\ UNCHANGED <<config, restVars, event, blockhash, transaction, signedTx, signCount, calls, polled,
                   sent, delays, attempt, last_error, signature, elapsed, confResult,
                   report, detVars>>

(***************************************************************************)
(* Sniper::wait_for_confirmation                                           *)
(***************************************************************************)
\* sniper.rs:294-296: the timeout test at the top of the loop
WaitCheckTimeout ==
    /\ pc = "wfc_check"
    /\ IF elapsed > MAX_WAIT_TIME
       THEN /\ confResult' = Err("confirm", "timeout")
            /\ pc' = "wfc_done"
       ELSE /\ pc' = "wfc_status"
            /\ UNCHANGED confResult
    /\ UNCHANGED <<config, restVars, event, blockhash, transaction, signedTx, signCount, calls, polled,
                   sent, delays, attempt, last_error, signature, elapsed, result,
                   report, detVars>>

\* sniper.rs:298-314: one get_signature_status call and the match on its reply
WaitStatus ==
    /\ pc = "wfc_status"
    /\ polled' = TRUE
    /\ \E latency \in RpcLatencies : elapsed' = elapsed + latency
    /\ \E reply \in StatusReplies :
         IF reply.kind = "some" /\ reply.err
         THEN /\ confResult' = Err("confirm", "failed")
              /\ pc' = "wfc_done"
         ELSE IF reply.kind = "some" /\ reply.confirmation_status
         THEN /\ confResult' = Ok("confirmed")
              /\ pc' = "wfc_done"
         ELSE /\ pc' = "wfc_sleep"
              /\ UNCHANGED confResult
    /\ UNCHANGED <<config, restVars, event, blockhash, transaction, signedTx, signCount, calls,
                   sent, delays, attempt, last_error, signature, result, report,
                   detVars>>

\* sniper.rs:316: sleep(POLL_INTERVAL)
WaitSleep ==
    /\ pc = "wfc_sleep"
    /\ elapsed' = elapsed + POLL_INTERVAL
    /\ pc' = "wfc_check"
    /\ UNCHANGED <<config, restVars, event, blockhash, transaction, signedTx, signCount, calls, polled,
                   sent, delays, attempt, last_error, signature, confResult, result,
                   report, detVars>>

\* sniper.rs:260-264: a confirmation error is logged, Ok(signature) is returned
SendReturn ==
    /\ pc = "wfc_done"
    /\ pc' = AfterConfirmation(confResult)
    /\ IF pc' = "returned"
       THEN /\ result' = Ok(SignatureToString(signature))
            /\ UNCHANGED attempt
       ELSE /\ attempt' = attempt + 1
            /\ UNCHANGED result
    /\ UNCHANGED <<config, restVars, event, blockhash, transaction, signedTx, signCount, calls, polled,
                   sent, delays, last_error, signature, elapsed, confResult, report,
                   detVars>>

(***************************************************************************)
(* run_snipe_loop: the match on the result of execute_buy                  *)
(***************************************************************************)
\* main.rs:139-150: Ok is logged as "Successfully sniped", Err as "Failed to
\* execute buy"
ReportResult ==
    /\ pc = "returned"
    /\ report' = IF result.tag = "Ok"
                 THEN [kind |-> "success", tx_sig |-> result.value]
                 ELSE [kind |-> "failure", tx_sig |-> <<>>]
    /\ pc' = "reported"
    /\ UNCHANGED <<config, restVars, event, blockhash, transaction, signedTx, signCount, calls, polled,
                   sent, delays, attempt, last_error, signature, elapsed, confResult,
                   result, detVars>>

NoCalls == [get_latest_blockhash |-> 0, send_transaction |-> 0]
NoReport == [kind |-> "none", tx_sig |-> <<>>]

\* main has spawned the snipe task and waits in its select!
InitMainSelect ==
    /\ mainPc = "select"
    /\ exitStatus = "running"
    /\ exitCause = "none"

NoChain == [liquidity_usd |-> 0, mint_authority |-> FALSE, freeze_authority |-> FALSE]

\* evaluate_pool has not been called
IdleFilter ==
    /\ fpc = "idle"
    /\ chain = NoChain
    /\ checksRun = <<>>
    /\ liqRes = None
    /\ rugRes = None
    /\ verdict = None

\* no adapter task runs and run_snipe_loop is not in its while loop
IdlePipe ==
    /\ ppc = "not_spawned"
    /\ progIdx = 0
    /\ pending = <<>>
    /\ last_signatures = {}
    /\ queue = <<>>
    /\ emitted = <<>>
    /\ skipped = {}
    /\ fetched = <<>>
    /\ opc = "not_started"
    /\ taken = <<>>
    /\ evaluated = <<>>
    /\ handled = <<>>
    /\ inFlight = <<>>
    /\ executed = <<>>
    /\ verdicts = <<>>
    /\ spc = "not_spawned"
    /\ held = None

NotCalled == [tag |-> "NotCalled"]
NoInstruction == [data |-> <<>>, account_keys |-> <<>>, account_indices |-> <<>>,
                  program_id |-> <<>>]
NoCalc == [amount_out |-> <<>>, slippage_bps |-> 0]

\* none of the codec and utility functions has been called
IdleCodec ==
    /\ ixBytes = <<>>
    /\ recognised = <<>>
    /\ ixn = NoInstruction
    /\ extracted = NotCalled
    /\ created = NotCalled

IdleCalc ==
    /\ calcIn = NoCalc
    /\ calcOut = NotCalled
    /\ calcLog = {}

IdlePure ==
    /\ IdleCodec
    /\ IdleCalc

InitNotMain ==
    /\ IdleFilter
    /\ IdlePipe
    /\ IdlePure

InitRest ==
    /\ InitMainSelect
    /\ InitNotMain

InitDet ==
    /\ dpc = "start"
    /\ geyserRes = None
    /\ detResult = None
    /\ tasks = {}
    /\ watched = [geyser |-> <<>>, polling |-> <<>>]
    /\ pollRound = 0

\* the state in which run_snipe_loop calls execute_buy for an event that
\* passed the filters
InitExec ==
    /\ config \in {[DefaultConfig EXCEPT !.dry_run = d,
                                         !.priority_fee_micro_lamports = fb[1],
                                         !.slippage_bps = fb[2]] :
                        d \in BOOLEAN, fb \in FeeAndSlippage}
    /\ event \in Events
    /\ pc = "call"
    /\ blockhash = "unset"
    /\ transaction = NoTransaction
    /\ signedTx = NoTransaction
    /\ signCount = 0
    /\ calls = NoCalls
    /\ polled = FALSE
    /\ sent = <<>>
    /\ delays = <<>>
    /\ attempt = 0
    /\ last_error = None
    /\ signature = <<>>
    /\ elapsed = 0
    /\ confResult = None
    /\ result = None
    /\ report = NoReport
    /\ InitDet
    /\ InitRest

NextExec ==
    \/ ExecuteBuyEnter
    \/ GetLatestBlockhash
    \/ BuildTransaction
    \/ AddBudget
    \/ SignTransaction
    \/ SendAttempt
    \/ Backoff
    \/ RetriesExhausted
    \/ WaitCheckTimeout
    \/ WaitStatus
    \/ WaitSleep
    \/ SendReturn
    \/ ReportResult

SpecExec == InitExec /\ [][NextExec]_vars

(***************************************************************************)
(* PoolDetector::start_detection and the two adapters' start               *)
(***************************************************************************)
\* detector.rs:96-102: the owner filter of the streaming subscription
GeyserProgramIds(cfg) ==
    (IF cfg.monitor_amm_v4 THEN <<"amm_v4_program_id">> ELSE <<>>)
    \o (IF cfg.monitor_cpmm THEN <<"cpmm_program_id">> ELSE <<>>)

\* detector.rs:183-189: the programs of one polling round
PollProgramIds(cfg) ==
    (IF cfg.monitor_amm_v4 THEN <<"amm_v4_program_id">> ELSE <<>>)
    \o (IF cfg.monitor_cpmm THEN <<"cpmm_program_id">> ELSE <<>>)

NeverFallback(cfg) == FALSE

AlwaysFallback(cfg) == TRUE

\* detector.rs:65: if !self.config.use_websocket_fallback { return Err(e) }
FallbackAllowed(cfg) == cfg.use_websocket_fallback

\* detector.rs:56: the streaming adapter is tried first when its URL is set
StartDetection ==
    /\ dpc = "start"
    /\ dpc' = IF config.yellowstone_grpc_url THEN "geyser_connect" ELSE "websocket"
    /\ UNCHANGED <<config, restVars, execVars, geyserRes, detResult, tasks, watched, pollRound>>

\* detector.rs:88-93: GeyserGrpcClient::connect
GeyserConnect ==
    /\ dpc = "geyser_connect"
    /\ \/ /\ dpc' = "geyser_programs"
          /\ UNCHANGED geyserRes
       \/ \E e \in RpcErrors :
            /\ geyserRes' = Err("connect", e)
            /\ dpc' = "geyser_result"
    /\ UNCHANGED <<config, restVars, execVars, detResult, tasks, watched, pollRound>>

\* detector.rs:96-106: an empty program list is refused
GeyserPrograms ==
    /\ dpc = "geyser_programs"
    /\ IF GeyserProgramIds(config) = <<>>
       THEN /\ geyserRes' = Err("config", "no_programs_enabled")
            /\ dpc' = "geyser_result"
       ELSE /\ dpc' = "geyser_subscribe"
            /\ UNCHANGED geyserRes
    /\ UNCHANGED <<config, restVars, execVars, detResult, tasks, watched, pollRound>>

\* detector.rs:109-161: subscribe_once, then the stream task is spawned
GeyserSubscribe ==
    /\ dpc = "geyser_subscribe"
    /\ \/ /\ tasks' = tasks \cup {"geyser"}
          /\ watched' = [watched EXCEPT !.geyser = GeyserProgramIds(config)]
          /\ geyserRes' = Ok("geyser")
       \/ \E e \in RpcErrors :
            /\ geyserRes' = Err("subscribe", e)
            /\ UNCHANGED <<tasks, watched>>
    /\ dpc' = "geyser_result"
    /\ UNCHANGED <<config, restVars, execVars, detResult, pollRound>>

\* detector.rs:58-70: the match on the result of start_geyser_stream
GeyserResult ==
    /\ dpc = "geyser_result"
    /\ IF geyserRes.tag = "Ok"
       THEN /\ detResult' = geyserRes
            /\ dpc' = "returned"
       ELSE IF ~FallbackAllowed(config)
       THEN /\ detResult' = geyserRes
            /\ dpc' = "returned"
       ELSE /\ dpc' = "websocket"
            /\ UNCHANGED detResult
    /\ UNCHANGED <<config, restVars, execVars, geyserRes, tasks, watched, pollRound>>

\* detector.rs:165-236: start_websocket_subscription spawns the polling task
\* and returns its stream; it has no failing path
StartWebsocketSubscription ==
    /\ dpc = "websocket"
    /\ tasks' = tasks \cup {"polling"}
    /\ detResult' = Ok("polling")
    /\ dpc' = "returned"
    /\ UNCHANGED <<config, restVars, execVars, geyserRes, watched, pollRound>>

\* detector.rs:181-232: one round of the polling task asks for the signatures
\* of every program of its list
PollRound ==
    /\ "polling" \in tasks
    /\ pollRound < MaxPollRounds
    /\ watched' = [watched EXCEPT !.polling = PollProgramIds(config)]
    /\ pollRound' = pollRound + 1
    /\ UNCHANGED <<config, restVars, execVars, dpc, geyserRes, detResult, tasks>>

\* main.rs:113-119: run_snipe_loop goes on with the stream or gives up
DetectionReturned ==
    /\ dpc = "returned"
    /\ dpc' = IF detResult.tag = "Ok" THEN "active" ELSE "exited"
    /\ UNCHANGED <<config, restVars, execVars, geyserRes, detResult, tasks, watched, pollRound>>

\* execute_buy has not been called
ExecNotCalled ==
    /\ pc = "idle"
    /\ blockhash = "unset"
    /\ transaction = NoTransaction
    /\ signedTx = NoTransaction
    /\ signCount = 0
    /\ calls = NoCalls
    /\ polled = FALSE
    /\ sent = <<>>
    /\ delays = <<>>
    /\ attempt = 0
    /\ last_error = None
    /\ signature = <<>>
    /\ elapsed = 0
    /\ confResult = None
    /\ result = None
    /\ report = NoReport

\* no event is being handled
IdleExec ==
    /\ event = NoEvent
    /\ ExecNotCalled

\* the configurations start_detection reads: streaming URL set or not,
\* fallback switch, the two monitor switches
DetectConfigs ==
    {[DefaultConfig EXCEPT !.yellowstone_grpc_url = g,
                           !.use_websocket_fallback = f,
                           !.monitor_amm_v4 = a,
                           !.monitor_cpmm = c] :
         g \in BOOLEAN, f \in BOOLEAN, a \in BOOLEAN, c \in BOOLEAN}

\* the state in which run_snipe_loop calls start_detection
InitDetect ==
    /\ config \in DetectConfigs
    /\ IdleExec
    /\ InitDet
    /\ InitRest

NextDetect ==
    \/ StartDetection
    \/ GeyserConnect
    \/ GeyserPrograms
    \/ GeyserSubscribe
    \/ GeyserResult
    \/ StartWebsocketSubscription
    \/ PollRound
    \/ DetectionReturned

SpecDetect == InitDetect /\ [][NextDetect]_vars

(***************************************************************************)
(* main: startup, the spawned snipe task, the select! and the exit         *)
(***************************************************************************)
\* main.rs:33-89: a failing `?` of the startup (configuration, wallet key,
\* balance, detector) makes main return Err; otherwise the snipe task is spawned
MainStartup ==
    /\ mainPc = "startup"
    /\ \/ /\ mainPc' = "done"
          /\ exitStatus' = "failure"
          /\ exitCause' = "startup_error"
          /\ UNCHANGED dpc
       \/ /\ mainPc' = "select"
          /\ dpc' = "start"
          /\ UNCHANGED <<exitStatus, exitCause>>
    /\ UNCHANGED <<config, execVars, geyserRes, detResult, tasks, watched, pollRound,
                   notMainVars>>

\* execute_buy between two awaits: the task is running
ExecRunning ==
    \/ pc \in {"call", "build", "budget", "sign", "wfc_check", "wfc_done", "returned"}
    \/ pc = "send_loop" /\ attempt > max_retries

\* execute_buy waiting in one of its awaits: an RPC reply or a sleep
ExecSuspended ==
    \/ pc \in {"blockhash", "backoff", "wfc_status", "wfc_sleep"}
    \/ pc = "send_loop" /\ attempt <= max_retries

OutlivesRuntime(position) == position

\* main.rs:18, 102: main returns, the runtime of #[tokio::main] is dropped and
\* with it every spawned task that has not ended
DroppedWithRuntime(position) ==
    IF position \in {"not_spawned", "ended"} THEN position ELSE "dropped"

\* main.rs:95: snipe_handle.abort() drops run_snipe_loop where it waits
AbortedLoop(position) ==
    IF position \in {"not_started", "ended", "panicked"} THEN position ELSE "aborted"

\* main.rs:93-96, 102: ctrl_c aborts the snipe task and main returns Ok(());
\* the abort drops the task where it waits, whatever call it is in, and the
\* runtime drops every task still alive
ShutdownSignal ==
    /\ mainPc = "select"
    /\ ~ExecRunning
    /\ dpc' = IF dpc = "exited" THEN dpc ELSE "aborted"
    /\ pc' = IF ExecSuspended THEN "aborted" ELSE pc
    /\ opc' = AbortedLoop(opc)
    /\ fpc' = IF fpc \in {"blacklist", "liquidity", "rug"} THEN "aborted" ELSE fpc
    /\ inFlight' = <<>>
    /\ ppc' = DroppedWithRuntime(ppc)
    /\ spc' = DroppedWithRuntime(spc)
    /\ tasks' = {}
    /\ mainPc' = "done"
    /\ exitStatus' = "success"
    /\ exitCause' = "signal"
    /\ UNCHANGED <<config, event, blockhash, transaction, signedTx, signCount, calls, polled,
                   sent, delays, attempt, last_error, signature, elapsed, confResult,
                   result, report, geyserRes, detResult, watched, pollRound,
                   chain, checksRun, liqRes, rugRes, verdict,
                   progIdx, pending, last_signatures, emitted, skipped, fetched, held, queue,
                   taken, evaluated, handled, executed, verdicts, pureVars>>

\* main.rs:97-99, 102: the snipe task ended by itself and main returns Ok(())
SnipeLoopCompleted ==
    /\ mainPc = "select"
    /\ dpc = "exited"
    /\ tasks' = {}
    /\ mainPc' = "done"
    /\ exitStatus' = "success"
    /\ exitCause' = "completed"
    /\ UNCHANGED <<config, execVars, dpc, geyserRes, detResult, watched, pollRound,
                   notMainVars>>

\* the process right after it was started
InitMain ==
    /\ config \in DetectConfigs
    /\ IdleExec
    /\ dpc = "not_spawned"
    /\ geyserRes = None
    /\ detResult = None
    /\ tasks = {}
    /\ watched = [geyser |-> <<>>, polling |-> <<>>]
    /\ pollRound = 0
    /\ mainPc = "startup"
    /\ exitStatus = "running"
    /\ exitCause = "none"
    /\ InitNotMain

NextMain ==
    \/ MainStartup
    \/ StartDetection
    \/ GeyserConnect
    \/ GeyserPrograms
    \/ GeyserSubscribe
    \/ GeyserResult
    \/ StartWebsocketSubscription
    \/ PollRound
    \/ DetectionReturned
    \/ ShutdownSignal
    \/ SnipeLoopCompleted

SpecMain == InitMain /\ [][NextMain]_vars

(***************************************************************************)
(* Sniper::evaluate_pool: blacklist, liquidity check, rug-indicator check   *)
(***************************************************************************)
\* a public key is its bytes; its string is the base58 of the bytes
Creators == {<<1>>, <<58>>}

\* BLACKLIST_CREATORS / --blacklist: a list of strings
Blacklists == {<<>>, << <<"2">> >>, << <<"2", "1">>, <<"2">> >>, << <<"2", "2">> >>}

LiquidityValues == {0, 999, 1000, 2001}

MaxLiquidityValues == {None, Some(2000)}

\* what the network holds about the pool of the event
ChainStates ==
    [liquidity_usd : LiquidityValues, mint_authority : BOOLEAN, freeze_authority : BOOLEAN]

FilterEvents == [pool : {"poolA"}, pool_type : PoolTypes, creator : Creators]

FilterConfigs ==
    {[DefaultConfig EXCEPT !.blacklisted_creators = b, !.max_liquidity_usd = m] :
         b \in Blacklists, m \in MaxLiquidityValues}

\* the values of Result<bool>
CheckResults == {Ok(TRUE), Ok(FALSE), Err("check", "rpc_timeout")}

NeverBlacklisted(cfg, creator) == FALSE

\* sniper.rs:50-51: blacklisted_creators.contains(&event.creator.to_string())
IsBlacklisted(cfg, creator) ==
    \E i \in DOMAIN cfg.blacklisted_creators :
        cfg.blacklisted_creators[i] = PubkeyToString(creator)

RejectedOrErrored(r) == r.tag # "Ok" \/ ~r.value

\* sniper.rs:58-69, 72-83: only Ok(false) makes evaluate_pool return Ok(false);
\* the Err arm logs and goes on
Rejected(r) == r.tag = "Ok" /\ ~r.value

\* sniper.rs:90-105: reads nothing and answers Ok(true)
check_liquidity(ch, pool, pool_type) == Ok(TRUE)

\* sniper.rs:108-117: reads nothing and answers Ok(true)
check_rug_indicators(ch, pool) == Ok(TRUE)

\* sniper.rs:49-54
BlacklistCheck ==
    /\ fpc = "blacklist"
    /\ checksRun' = Append(checksRun, "blacklist")
    /\ IF IsBlacklisted(config, event.creator)
       THEN /\ verdict' = Ok(FALSE)
            /\ fpc' = "done"
       ELSE /\ fpc' = "liquidity"
            /\ UNCHANGED verdict
    /\ UNCHANGED <<config, execVars, detVars, mainVars, pureVars, pipeVars, chain, liqRes, rugRes>>

\* sniper.rs:58-69: the match on the awaited liquidity check
LiquidityMatch(r) ==
    /\ fpc = "liquidity"
    /\ checksRun' = Append(checksRun, "liquidity")
    /\ liqRes' = r
    /\ IF Rejected(r)
       THEN /\ verdict' = Ok(FALSE)
            /\ fpc' = "done"
       ELSE /\ fpc' = "rug"
            /\ UNCHANGED verdict
    /\ UNCHANGED <<config, execVars, detVars, mainVars, pureVars, pipeVars, chain, rugRes>>

\* sniper.rs:72-86: the match on the awaited rug check, then Ok(true)
RugMatch(r) ==
    /\ fpc = "rug"
    /\ checksRun' = Append(checksRun, "rug")
    /\ rugRes' = r
    /\ verdict' = IF Rejected(r) THEN Ok(FALSE) ELSE Ok(TRUE)
    /\ fpc' = "done"
    /\ UNCHANGED <<config, execVars, detVars, mainVars, pureVars, pipeVars, chain, liqRes>>

\* the two checks as the source has them
CheckLiquidity == LiquidityMatch(check_liquidity(chain, event.pool, event.pool_type))

CheckRugIndicators == RugMatch(check_rug_indicators(chain, event.pool))

\* the two matches for every value a Result<bool> can have
CheckLiquidityAny == \E r \in CheckResults : LiquidityMatch(r)

CheckRugIndicatorsAny == \E r \in CheckResults : RugMatch(r)

\* the state in which run_snipe_loop calls evaluate_pool for an event
InitFilter ==
    /\ config \in FilterConfigs
    /\ event \in FilterEvents
    /\ ExecNotCalled
    /\ InitDet
    /\ InitMainSelect
    /\ IdlePipe
    /\ IdlePure
    /\ fpc = "blacklist"
    /\ chain \in ChainStates
    /\ checksRun = <<>>
    /\ liqRes = None
    /\ rugRes = None
    /\ verdict = None

NextFilter ==
    \/ BlacklistCheck
    \/ CheckLiquidity
    \/ CheckRugIndicators

SpecFilter == InitFilter /\ [][NextFilter]_vars

NextFilterAny ==
    \/ BlacklistCheck
    \/ CheckLiquidityAny
    \/ CheckRugIndicatorsAny

SpecFilterAny == InitFilter /\ [][NextFilterAny]_vars

(***************************************************************************)
(* The polling adapter task, the channel and the while loop of             *)
(* run_snipe_loop                                                          *)
(***************************************************************************)
\* detector.rs:170   tokio::sync::mpsc::channel(1000)
ChannelCapacity == 1000
\* detector.rs:194   signatures.iter().take(10)
TakeLimit == 10
\* longest reply of get_signatures_for_address explored
MaxReplyLen == 2
\* events the orchestrator takes from the stream in one exploration
MaxTaken == 2

PollSignatures == {"sigA", "sigB"}

\* replies of get_signatures_for_address: any list, repeats included
SignatureReplies ==
    UNION {[1..n -> PollSignatures] : n \in 0..MaxReplyLen}

Take(list, n) == SubSeq(list, 1, IF Len(list) < n THEN Len(list) ELSE n)

\* the accounts named by the pool-creating transaction with this signature
TxPool(sig) == IF sig = "sigA" THEN "poolA" ELSE "poolB"

TxCreator(sig) == IF sig = "sigA" THEN <<1>> ELSE <<58>>

\* detector.rs:294-307: the event parse_transaction builds
PolledEvent(sig, program_id) ==
    [pool      |-> TxPool(sig),
     creator   |-> TxCreator(sig),
     signature |-> sig,
     pool_type |-> IF program_id = "amm_v4_program_id" THEN "AMMv4" ELSE "CPMM"]

Forget(set, sig) == set

\* detector.rs:221: last_signatures.insert(sig_info.signature.clone())
Remember(set, sig) == set \cup {sig}

ChannelSendFront(q, e) == <<e>> \o q

\* detector.rs:215: tx.send(event) puts the event behind those already queued
ChannelSend(q, e) == Append(q, e)

SnipeAlways(v) == TRUE

\* main.rs:135-136: Ok(should_snipe) with should_snipe true
ShouldSnipe(v) == v.tag = "Ok" /\ v.value

DetachedExecute == "rate_limit"

\* main.rs:139: execute_buy(&event).await, the loop waits for the call
AwaitedExecute == "await_execute"

\* detector.rs:181-191: a round builds its program list
PollRoundStart ==
    /\ ppc = "round"
    /\ pollRound < MaxPollRounds
    /\ pollRound' = pollRound + 1
    /\ watched' = [watched EXCEPT !.polling = PollProgramIds(config)]
    /\ IF PollProgramIds(config) = <<>>
       THEN /\ ppc' = "sleep"
            /\ UNCHANGED progIdx
       ELSE /\ ppc' = "fetch"
            /\ progIdx' = 1
    /\ UNCHANGED <<config, execVars, dpc, geyserRes, detResult, tasks, mainVars, pureVars, filterVars, streamVars,
                   pending, last_signatures, emitted, skipped, fetched, queue, loopVars>>

\* detector.rs:192-194, 224-226: get_signatures_for_address for one program
PollFetchSignatures ==
    /\ ppc = "fetch"
    /\ \/ \E reply \in SignatureReplies : pending' = Take(reply, TakeLimit)
       \/ pending' = <<>>
    /\ ppc' = "examine"
    /\ UNCHANGED <<config, execVars, detVars, mainVars, pureVars, filterVars, streamVars,
                   progIdx, last_signatures, emitted, skipped, fetched, queue, loopVars>>

\* detector.rs:194-222: one signature of the reply: skipped when seen; else
\* get_transaction and parse_transaction give an event or nothing, an event
\* is sent (send waits while the channel is full), the signature is inserted
PollExamineSignature ==
    /\ ppc = "examine"
    /\ pending # <<>>
    /\ LET sig == Head(pending) IN
         IF sig \in last_signatures
         THEN /\ skipped' = skipped \cup {sig}
              /\ UNCHANGED <<last_signatures, queue, emitted, fetched>>
         ELSE /\ \/ /\ \E ended \in {"fetch_failed", "no_event"} :
                         fetched' = Append(fetched, [signature |-> sig, ended |-> ended])
                    /\ UNCHANGED <<queue, emitted>>
                 \/ /\ Len(queue) < ChannelCapacity
                    /\ fetched' = Append(fetched, [signature |-> sig, ended |-> "event"])
                    /\ queue' = ChannelSend(queue, PolledEvent(sig, PollProgramIds(config)[progIdx]))
                    /\ emitted' = Append(emitted, PolledEvent(sig, PollProgramIds(config)[progIdx]))
              /\ last_signatures' = Remember(last_signatures, sig)
              /\ UNCHANGED skipped
    /\ pending' = Tail(pending)
    /\ UNCHANGED <<config, execVars, detVars, mainVars, pureVars, filterVars, streamVars, ppc, progIdx, loopVars>>

\* detector.rs:191, 228: the reply is used up, on to the next program
PollNextProgram ==
    /\ ppc = "examine"
    /\ pending = <<>>
    /\ IF progIdx < Len(PollProgramIds(config))
       THEN /\ progIdx' = progIdx + 1
            /\ ppc' = "fetch"
       ELSE /\ ppc' = "sleep"
            /\ UNCHANGED progIdx
    /\ UNCHANGED <<config, execVars, detVars, mainVars, pureVars, filterVars, streamVars,
                   pending, last_signatures, emitted, skipped, fetched, queue, loopVars>>

\* detector.rs:231: sleep(rate_limit_ms), then the next round
PollSleep ==
    /\ ppc = "sleep"
    /\ ppc' = "round"
    /\ UNCHANGED <<config, execVars, detVars, mainVars, pureVars, filterVars, streamVars,
                   progIdx, pending, last_signatures, emitted, skipped, fetched, queue, loopVars>>

\* main.rs:124-134: event_stream.next() returns the oldest queued event and
\* evaluate_pool is called for it
StreamNext ==
    /\ opc = "recv"
    /\ Len(taken) < MaxTaken
    /\ queue # <<>>
    /\ event' = Head(queue)
    /\ queue' = Tail(queue)
    /\ taken' = Append(taken, Head(queue))
    /\ opc' = "evaluate"
    /\ fpc' = "blacklist"
    /\ checksRun' = <<>>
    /\ liqRes' = None
    /\ rugRes' = None
    /\ verdict' = None
    /\ UNCHANGED <<config, execLocals, detVars, mainVars, pureVars, chain, adapterVars, streamVars,
                   evaluated, handled, inFlight, executed, verdicts>>

\* main.rs:134-158: the match on the result of evaluate_pool
EvaluateReturned ==
    /\ opc = "evaluate"
    /\ fpc = "done"
    /\ evaluated' = Append(evaluated, event)
    /\ verdicts' = Append(verdicts, verdict)
    /\ opc' = IF ShouldSnipe(verdict) THEN "execute" ELSE "rate_limit"
    /\ UNCHANGED <<config, execVars, detVars, mainVars, pureVars, filterVars, adapterVars, streamVars, queue,
                   taken, handled, inFlight, executed>>

\* main.rs:139: execute_buy is called for the event
ExecuteBuyCalled ==
    /\ opc = "execute"
    /\ inFlight' = Append(inFlight, event)
    /\ executed' = Append(executed, event)
    /\ opc' = AwaitedExecute
    /\ UNCHANGED <<config, execVars, detVars, mainVars, pureVars, filterVars, adapterVars, streamVars, queue,
                   taken, evaluated, handled, verdicts>>

\* how a call of execute_buy ends: it returns a Result, or, past the dry-run
\* return (sniper.rs:121-128), the subtraction of calculate_min_amount_out
\* (sniper.rs:150) or the addition of estimate_priority_fee (sniper.rs:176)
\* panics
ExecuteBuyEnds(cfg) ==
    {"returned"} \cup
    IF /\ ~DryRunShortCircuit(cfg)
       /\ \/ Panic \in SubtractFromDenominator(cfg.slippage_bps)
          \/ \E jitter \in Jitters :
                Panic \in estimate_priority_fee(cfg.priority_fee_micro_lamports, jitter)
    THEN {"panicked"}
    ELSE {}

\* main.rs:139-150: a call of execute_buy returns, both arms only log; a panic
\* inside the awaited call unwinds through run_snipe_loop and ends its task
ExecuteBuyCompleted ==
    /\ \E i \in DOMAIN inFlight, ended \in ExecuteBuyEnds(config) :
         /\ inFlight' = SubSeq(inFlight, 1, i - 1) \o SubSeq(inFlight, i + 1, Len(inFlight))
         /\ opc' = IF opc # "await_execute" THEN opc
                   ELSE IF ended = "panicked" THEN "panicked" ELSE "rate_limit"
    /\ UNCHANGED <<config, execVars, detVars, mainVars, pureVars, filterVars, adapterVars, streamVars, queue,
                   taken, evaluated, handled, executed, verdicts>>

\* main.rs:161: rate_limit_delay ends and the loop asks for the next event
RateLimitDelay ==
    /\ opc = "rate_limit"
    /\ handled' = Append(handled, event)
    /\ opc' = "recv"
    /\ UNCHANGED <<config, execVars, detVars, mainVars, pureVars, filterVars, adapterVars, streamVars, queue,
                   taken, evaluated, inFlight, executed, verdicts>>

PipeConfigs ==
    {[DefaultConfig EXCEPT !.blacklisted_creators = b,
                           !.monitor_amm_v4 = a,
                           !.monitor_cpmm = c] :
         b \in {<<>>, << <<"2">> >>}, a \in BOOLEAN, c \in BOOLEAN}

\* start_websocket_subscription has returned: the polling task is spawned,
\* run_snipe_loop enters its while loop
PipeStart ==
    /\ IdleExec
    /\ dpc = "active"
    /\ geyserRes = None
    /\ detResult = Ok("polling")
    /\ tasks = {"polling"}
    /\ watched = [geyser |-> <<>>, polling |-> <<>>]
    /\ pollRound = 0
    /\ InitMainSelect
    /\ IdleFilter
    /\ IdlePure
    /\ ppc = "round"
    /\ progIdx = 0
    /\ pending = <<>>
    /\ last_signatures = {}
    /\ queue = <<>>
    /\ emitted = <<>>
    /\ skipped = {}
    /\ fetched = <<>>
    /\ opc = "recv"
    /\ taken = <<>>
    /\ evaluated = <<>>
    /\ handled = <<>>
    /\ inFlight = <<>>
    /\ executed = <<>>
    /\ verdicts = <<>>
    /\ spc = "not_spawned"
    /\ held = None

InitPipe == config \in PipeConfigs /\ PipeStart

NextPipe ==
    \/ PollRoundStart
    \/ PollFetchSignatures
    \/ PollExamineSignature
    \/ PollNextProgram
    \/ PollSleep
    \/ StreamNext
    \/ BlacklistCheck
    \/ CheckLiquidity
    \/ CheckRugIndicators
    \/ EvaluateReturned
    \/ ExecuteBuyCalled
    \/ ExecuteBuyCompleted
    \/ RateLimitDelay

SpecPipe == InitPipe /\ [][NextPipe]_vars

\* configurations that differ in what execute_buy does: dry run or not, the
\* default slippage or one past 10000
LoopConfigs ==
    {[DefaultConfig EXCEPT !.dry_run = d, !.slippage_bps = b] :
         d \in BOOLEAN, b \in SlippageSettings}

InitLoop == config \in LoopConfigs /\ PipeStart

\* main.rs:124-161: the steps of the task that runs run_snipe_loop
SnipeLoopStep ==
    \/ StreamNext
    \/ BlacklistCheck
    \/ CheckLiquidity
    \/ CheckRugIndicators
    \/ EvaluateReturned
    \/ ExecuteBuyCalled
    \/ ExecuteBuyCompleted
    \/ RateLimitDelay

\* the runtime keeps polling a live task and every call the loop awaits
\* (the RPC requests with their client timeout, the sleeps) comes back
SpecLoop == InitLoop /\ [][NextPipe]_vars /\ WF_vars(SnipeLoopStep)

(***************************************************************************)
(* The streaming adapter task of start_geyser_stream                       *)
(***************************************************************************)
\* detector.rs:239-254: a placeholder that answers None for every update
parse_transaction_update(update) == None

\* an event as a finished parser would build it
StreamEvent ==
    [pool |-> "poolA", creator |-> <<1>>, signature |-> "sigA", pool_type |-> "AMMv4"]

\* the values of Option<PoolCreationEvent>
ParseResults == {None, Some(StreamEvent)}

\* the receiver lives in run_snipe_loop and is dropped with it
ReceiverClosed == dpc \in {"aborted", "exited"}

\* detector.rs:137-158: one stream message is handled up to the next point
\* where the task waits: nothing to forward; or tx.send fails on a closed
\* channel and the loop breaks; or the event is queued; or the channel is
\* full and the task waits inside send
GeyserMessage(parsed) ==
    /\ "geyser" \in tasks
    /\ spc = "recv_msg"
    /\ IF parsed = None
       THEN UNCHANGED <<spc, held, queue, emitted>>
       ELSE IF ReceiverClosed
       THEN /\ spc' = "ended"
            /\ UNCHANGED <<held, queue, emitted>>
       ELSE IF Len(queue) < ChannelCapacity
       THEN /\ queue' = ChannelSend(queue, parsed.value)
            /\ emitted' = Append(emitted, parsed.value)
            /\ UNCHANGED <<spc, held>>
       ELSE /\ spc' = "blocked_in_send"
            /\ held' = parsed.value
            /\ UNCHANGED <<queue, emitted>>
    /\ UNCHANGED <<config, execVars, detVars, mainVars, pureVars, filterVars, loopVars,
                   ppc, progIdx, pending, last_signatures, skipped, fetched>>

\* the loop with the parser of the source
GeyserUpdate == GeyserMessage(parse_transaction_update("update"))

\* the loop for every value the parser's Option can have
GeyserUpdateAny == \E parsed \in ParseResults : GeyserMessage(parsed)

\* detector.rs:147-150: the waiting send ends: with room the event is queued
\* and the loop goes on, on a closed channel the loop breaks
GeyserSendResumes ==
    /\ "geyser" \in tasks
    /\ spc = "blocked_in_send"
    /\ IF ReceiverClosed
       THEN /\ spc' = "ended"
            /\ UNCHANGED <<queue, emitted>>
       ELSE /\ Len(queue) < ChannelCapacity
            /\ queue' = ChannelSend(queue, held)
            /\ emitted' = Append(emitted, held)
            /\ spc' = "recv_msg"
    /\ held' = None
    /\ UNCHANGED <<config, execVars, detVars, mainVars, pureVars, filterVars, loopVars,
                   ppc, progIdx, pending, last_signatures, skipped, fetched>>

\* detector.rs:137: stream.message() has no further message, the task ends
\* and drops the sender
GeyserStreamEnds ==
    /\ "geyser" \in tasks
    /\ spc = "recv_msg"
    /\ spc' = "ended"
    /\ UNCHANGED <<config, execVars, detVars, mainVars, pureVars, filterVars, loopVars,
                   ppc, progIdx, pending, last_signatures, skipped, fetched, held, queue, emitted>>

\* main.rs:124, 164: next() answers None once the queue is empty and the
\* sender is gone; run_snipe_loop logs and returns
StreamEnded ==
    /\ opc = "recv"
    /\ queue = <<>>
    /\ spc = "ended"
    /\ opc' = "ended"
    /\ dpc' = "exited"
    /\ UNCHANGED <<config, execVars, geyserRes, detResult, tasks, watched, pollRound,
                   mainVars, pureVars, filterVars, adapterVars, streamVars, queue,
                   taken, evaluated, handled, inFlight, executed, verdicts>>

StreamConfigs ==
    {[DefaultConfig EXCEPT !.yellowstone_grpc_url = TRUE, !.blacklisted_creators = b] :
         b \in {<<>>, << <<"2">> >>}}

\* start_geyser_stream has returned: the stream task is spawned,
\* run_snipe_loop enters its while loop
InitStream ==
    /\ config \in StreamConfigs
    /\ IdleExec
    /\ dpc = "active"
    /\ geyserRes = Ok("geyser")
    /\ detResult = Ok("geyser")
    /\ tasks = {"geyser"}
    /\ watched = [geyser |-> GeyserProgramIds(config), polling |-> <<>>]
    /\ pollRound = 0
    /\ InitMainSelect
    /\ IdleFilter
    /\ IdlePure
    /\ ppc = "not_spawned"
    /\ progIdx = 0
    /\ pending = <<>>
    /\ last_signatures = {}
    /\ queue = <<>>
    /\ emitted = <<>>
    /\ skipped = {}
    /\ fetched = <<>>
    /\ opc = "recv"
    /\ taken = <<>>
    /\ evaluated = <<>>
    /\ handled = <<>>
    /\ inFlight = <<>>
    /\ executed = <<>>
    /\ verdicts = <<>>
    /\ spc = "recv_msg"
    /\ held = None

NextStreamAny ==
    \/ GeyserUpdateAny
    \/ GeyserSendResumes
    \/ GeyserStreamEnds
    \/ StreamNext
    \/ BlacklistCheck
    \/ CheckLiquidity
    \/ CheckRugIndicators
    \/ EvaluateReturned
    \/ ExecuteBuyCalled
    \/ ExecuteBuyCompleted
    \/ RateLimitDelay
    \/ StreamEnded

SpecStreamAny == InitStream /\ [][NextStreamAny]_vars

(***************************************************************************)
(* The running pipeline, either adapter, while main waits in its select!   *)
(***************************************************************************)
InitPipeShutdown == InitPipe \/ InitStream

NextPipeShutdown ==
    \/ PollRoundStart
    \/ PollFetchSignatures
    \/ PollExamineSignature
    \/ PollNextProgram
    \/ PollSleep
    \/ GeyserUpdate
    \/ GeyserStreamEnds
    \/ StreamNext
    \/ BlacklistCheck
    \/ CheckLiquidity
    \/ CheckRugIndicators
    \/ EvaluateReturned
    \/ ExecuteBuyCalled
    \/ ExecuteBuyCompleted
    \/ RateLimitDelay
    \/ StreamEnded
    \/ SnipeLoopCompleted
    \/ ShutdownSignal

SpecPipeShutdown == InitPipeShutdown /\ [][NextPipeShutdown]_vars

(***************************************************************************)
(* execute_buy while main waits in its select!                             *)
(***************************************************************************)
NextExecShutdown ==
    \/ ExecuteBuyEnter
    \/ GetLatestBlockhash
    \/ BuildTransaction
    \/ AddBudget
    \/ SignTransaction
    \/ SendAttempt
    \/ Backoff
    \/ RetriesExhausted
    \/ WaitCheckTimeout
    \/ WaitStatus
    \/ WaitSleep
    \/ SendReturn
    \/ ReportResult
    \/ ShutdownSignal

SpecExecShutdown == InitExec /\ [][NextExecShutdown]_vars

(***************************************************************************)
(* Properties of the execution engine (checked under SpecExec)             *)
(***************************************************************************)
ExecuteBuyReturned == pc \in {"returned", "reported"}
SubmissionAccepted == signature # <<>>
SendReplies == [i \in DOMAIN sent |-> sent[i].reply.tag]

\* C1: with dry_run configured, execute_buy returns "dry_run_simulation" and
\* the call fetches no blockhash, signs nothing, sends nothing and polls no
\* status; no string returned by a real submission equals the dry-run string.
C1_DryRunNoNetwork ==
    /\ config.dry_run =>
          /\ calls = NoCalls
          /\ ~polled
          /\ signCount = 0
          /\ sent = <<>>
          /\ ExecuteBuyReturned => result = Ok(DryRunString)
    /\ (~config.dry_run /\ result.tag = "Ok") =>
          /\ result.value = SignatureToString(signature)
          /\ result.value # DryRunString
          /\ "_" \notin Range(result.value)

C1_Witness == config.dry_run /\ pc = "reported" /\ report.tx_sig = DryRunString

\* C2 (as claimed): for an accepted submission the result handed to the caller
\* tells confirmed from rejected on-chain from timed out; in particular only a
\* confirmed transaction is handed back as a success.
C2_OutcomeDistinguished ==
    (ExecuteBuyReturned /\ SubmissionAccepted /\ result.tag = "Ok")
        => confResult.tag = "Ok"

\* C3: send_transaction is called at most max_retries times, the delay slept
\* after the i-th failed attempt is 1000 ms times that attempt's number, and
\* every delay is strictly greater than the one before it.
C3_BoundedBackoff ==
    /\ calls.send_transaction <= max_retries
    /\ Len(sent) = calls.send_transaction
    /\ Len(delays) <= Len(sent)
    /\ \A i \in DOMAIN delays :
          /\ sent[i].reply.tag = "Err"
          /\ delays[i] = 1000 * sent[i].attempt
          /\ i > 1 => delays[i] > delays[i - 1]

C3_Witness == Len(delays) = 2 /\ calls.send_transaction = max_retries

\* C4: one execute_buy signs once, after the price, limit and swap instructions
\* are in place and with the one blockhash fetched, and every send attempt
\* carries exactly the transaction that left the signing.
C4_SignedOnceSentUnchanged ==
    /\ signCount <= 1
    /\ calls.get_latest_blockhash <= 1
    /\ signCount = 1 =>
          /\ [i \in DOMAIN signedTx.instructions |-> signedTx.instructions[i].kind]
                = <<"set_compute_unit_price", "set_compute_unit_limit", "cpmm_swap">>
          /\ signedTx.recent_blockhash = blockhash
          /\ Len(signedTx.signatures) = 1
    /\ sent # <<>> => signCount = 1
    /\ \A i \in DOMAIN sent : sent[i].tx = VersionedTransactionFrom(signedTx)

C4_Witness == Len(sent) = max_retries /\ signCount = 1

\* C5: a submission error is returned only when all max_retries sends failed
\* and it is the error of the last one; an accepted send is the last send and
\* is never followed by a submission error.
C5_ErrorAfterExhaustion ==
    /\ (result.tag = "Err" /\ result.stage = "send") =>
          /\ Len(sent) = max_retries
          /\ \A i \in DOMAIN sent : sent[i].reply.tag = "Err"
          /\ result.err = sent[max_retries].reply.err
    /\ \A i \in DOMAIN sent :
          sent[i].reply.tag = "Ok" => (i = Len(sent) /\ result.tag # "Err")

C5_Witness ==
    /\ result.tag = "Err"
    /\ result.stage = "send"
    /\ sent[1].reply.err # sent[max_retries].reply.err

\* C6 (as claimed): wait_for_confirmation has ended at or before MAX_WAIT_TIME
\* (30 s) after its start, whatever the status replies were.
C6_EndsWithinMaxWait == confResult # None => elapsed <= MAX_WAIT_TIME

\* C7: once a send was accepted no further send_transaction is issued, and
\* once wait_for_confirmation has ended (an on-chain failure included) the
\* next step is the return, with no further RPC call.
C7_NoSendAfterAccept ==
    [][ /\ SubmissionAccepted => (calls' = calls /\ sent' = sent)
        /\ confResult # None => (polled' = polled /\ pc' \in {"returned", "reported"})
      ]_vars

C7_Witness ==
    /\ confResult = Err("confirm", "failed")
    /\ pc = "reported"
    /\ calls.send_transaction = 1

(***************************************************************************)
(* Properties of adapter selection (checked under SpecDetect)              *)
(***************************************************************************)
StartDetectionReturned == dpc \in {"returned", "active", "exited"}
StreamingFailed == config.yellowstone_grpc_url /\ geyserRes.tag = "Err"
NothingMonitored == ~config.monitor_amm_v4 /\ ~config.monitor_cpmm

C9_NoFallbackReturnsError ==
    (StreamingFailed /\ ~config.use_websocket_fallback) =>
        /\ "polling" \notin tasks
        /\ pollRound = 0
        /\ StartDetectionReturned => detResult = geyserRes

C9_Witness ==
    /\ StreamingFailed
    /\ ~config.use_websocket_fallback
    /\ dpc = "exited"
    /\ detResult.stage = "connect"

\* C10 (as claimed): with both monitoring toggles off start_detection returns
\* a configuration error on every path.
C10_EmptySetIsConfigError ==
    (NothingMonitored /\ StartDetectionReturned) =>
        (detResult.tag = "Err" /\ detResult.stage = "config")

(***************************************************************************)
(* Properties of the process exit (checked under SpecMain)                 *)
(***************************************************************************)
\* C11 (as claimed): when the snipe loop ended because start_detection
\* failed and main ended for that reason, the exit status is non-zero.
C11_StartupErrorExitsNonZero ==
    (exitCause = "completed" /\ detResult.tag = "Err") => exitStatus = "failure"
(***************************************************************************)
(* Properties of the filter engine                                         *)
(***************************************************************************)
EvaluatePoolReturned == fpc = "done"

\* the string of the event's creator is one of the configured strings
CreatorInBlacklist == PubkeyToString(event.creator) \in Range(config.blacklisted_creators)

IsPrefix(s, t) == Len(s) <= Len(t) /\ s = SubSeq(t, 1, Len(s))

\* C12: a blacklisted creator is rejected with neither the liquidity check
\* nor the rug check started; the checks run in the order blacklist,
\* liquidity, rug, and a rejection by one check ends the evaluation.
C12_BlacklistShortCircuit ==
    /\ IsPrefix(checksRun, <<"blacklist", "liquidity", "rug">>)
    /\ (checksRun # <<>> /\ CreatorInBlacklist) =>
           /\ fpc = "done"
           /\ verdict = Ok(FALSE)
           /\ checksRun = <<"blacklist">>
           /\ liqRes = None /\ rugRes = None
    /\ Rejected(liqRes) => (fpc = "done" /\ verdict = Ok(FALSE) /\ rugRes = None)

C12_Witness ==
    /\ EvaluatePoolReturned
    /\ CreatorInBlacklist
    /\ Len(config.blacklisted_creators) = 2
    /\ verdict = Ok(FALSE)

\* C13: evaluate_pool returns Ok, never Err, and returns Ok(true) exactly
\* when the creator is not blacklisted and neither check answered Ok(false);
\* a check that ended with Err changes nothing.
C13_PassIffNoRejection ==
    EvaluatePoolReturned =>
        /\ verdict.tag = "Ok"
        /\ verdict.value <=> /\ ~CreatorInBlacklist
                             /\ liqRes # Ok(FALSE)
                             /\ rugRes # Ok(FALSE)

C13_Witness ==
    /\ EvaluatePoolReturned
    /\ liqRes.tag = "Err"
    /\ rugRes.tag = "Err"
    /\ verdict = Ok(TRUE)

\* C14 (as claimed): a pool whose liquidity is below the minimum, or above
\* the maximum when one is set, is rejected.
C14_LiquidityOutOfRangeRejected ==
    (/\ EvaluatePoolReturned
     /\ \/ chain.liquidity_usd < config.min_liquidity_usd
        \/ /\ config.max_liquidity_usd # None
           /\ chain.liquidity_usd > config.max_liquidity_usd.value)
        => verdict = Ok(FALSE)

\* C15 (as claimed): a pool whose mint kept its mint authority or its freeze
\* authority is rejected.
C15_RetainedAuthorityRejected ==
    (EvaluatePoolReturned /\ (chain.mint_authority \/ chain.freeze_authority))
        => verdict = Ok(FALSE)

(***************************************************************************)
(* Properties of the adapter, the channel and the orchestrator loop        *)
(***************************************************************************)
\* C16: at most one execute_buy call is in flight, and an event is taken
\* from the queue only after the evaluation, the execution and the
\* rate-limit delay of the event before it have ended.
C16_OneEventAtATime ==
    /\ Len(inFlight) <= 1
    /\ opc = "recv" => (inFlight = <<>> /\ handled = taken)
    /\ IsPrefix(handled, taken)
    /\ Len(taken) <= Len(handled) + 1
    /\ IsPrefix(evaluated, taken)
    /\ IsPrefix(handled, evaluated)

C16_Witness ==
    /\ Len(inFlight) = 1
    /\ Len(handled) = 1
    /\ Len(queue) = 0
    /\ inFlight[1] = taken[2]
    /\ handled[1].pool # inFlight[1].pool

\* C17: what the orchestrator has received, followed by what still waits in
\* the queue, is what the adapter sent, in the adapter's order; events are
\* evaluated in that order.
C17_DeliveredInAdapterOrder ==
    /\ taken \o queue = emitted
    /\ IsPrefix(evaluated, emitted)

C17_Witness ==
    /\ Len(emitted) = 2
    /\ evaluated = emitted
    /\ emitted[1].signature = "sigB"

\* C18: no two events sent by the polling adapter carry the same signature,
\* and no signature is evaluated twice.
C18_SignaturesUnique ==
    /\ \A i, j \in DOMAIN emitted :
         emitted[i].signature = emitted[j].signature => i = j
    /\ \A i, j \in DOMAIN evaluated :
         evaluated[i].signature = evaluated[j].signature => i = j

C18_Witness ==
    /\ Len(emitted) = 2
    /\ skipped = PollSignatures
    /\ pollRound = 2
    /\ Len(evaluated) = 2

ProcessExited == mainPc = "done"

\* C20 (as claimed): when the process has exited after a shutdown signal and
\* a transaction had been accepted by the network, either the confirmation
\* polling ran to its end or the outcome was reported as unknown.
C20_NoSilentDropAfterSubmit ==
    (ProcessExited /\ exitCause = "signal" /\ SubmissionAccepted)
        => (confResult # None \/ report.kind = "unknown")

\* what the adapters and the orchestrator loop do: requests, sends, events
\* taken, evaluations, executions
PipelineActivity ==
    <<ppc, progIdx, pending, last_signatures, emitted, skipped, fetched, spc, held, queue,
      opc, fpc, taken, evaluated, handled, inFlight, executed, verdicts, pollRound>>

\* C21: once the shutdown signal was handled, no task is alive, no
\* execute_buy is in flight, and nothing in the pipeline moves any more: no
\* event is taken or evaluated and no adapter issues a request or sends.
C21_NothingRunsAfterShutdown ==
    /\ [](exitCause = "signal" =>
            /\ tasks = {}
            /\ inFlight = <<>>
            /\ ppc \in {"not_spawned", "dropped"}
            /\ spc \in {"not_spawned", "ended", "dropped"}
            /\ opc \in {"aborted", "ended"})
    /\ [][exitCause = "signal" => UNCHANGED PipelineActivity]_vars

C21_Witness ==
    /\ ProcessExited
    /\ exitCause = "signal"
    /\ ppc = "dropped"
    /\ pollRound = 1
    /\ pending # <<>>
    /\ queue # <<>>
    /\ Len(taken) = 1
    /\ opc = "aborted"

\* C30: every event taken from the stream is evaluated once, in order; every
\* call of execute_buy is for an event whose own evaluation returned
\* Ok(true), no event is executed twice, and an event whose evaluation
\* returned anything else is never executed.
C30_ExecuteOnlyAfterPass ==
    /\ IsPrefix(evaluated, taken)
    /\ Len(taken) <= Len(evaluated) + 1
    /\ Len(verdicts) = Len(evaluated)
    /\ \A i, j \in DOMAIN evaluated : evaluated[i] = evaluated[j] => i = j
    /\ \A i, j \in DOMAIN executed : executed[i] = executed[j] => i = j
    /\ \A i \in DOMAIN executed :
         \E j \in DOMAIN evaluated : evaluated[j] = executed[i] /\ verdicts[j] = Ok(TRUE)
    /\ \A j \in DOMAIN evaluated :
         verdicts[j] # Ok(TRUE) => \A i \in DOMAIN executed : executed[i] # evaluated[j]

C30_Witness ==
    /\ Len(handled) = 2
    /\ verdicts = <<Ok(FALSE), Ok(TRUE)>>
    /\ executed = <<evaluated[2]>>

(***************************************************************************)
(* Properties of instruction construction and of the stages of execute_buy *)
(***************************************************************************)
\* the swap instructions inside a submitted transaction
SwapInstructions(tx) ==
    {tx.message.instructions[i] : i \in {j \in DOMAIN tx.message.instructions :
                                            tx.message.instructions[j].kind = "cpmm_swap"}}

\* a token account slot filled with the wallet address or the pool address
HasPlaceholderAccounts(ix) ==
    \/ ix.accounts[3] = ix.accounts[1]
    \/ ix.accounts[4] = ix.accounts[1]
    \/ ix.accounts[5] = ix.accounts[2]
    \/ ix.accounts[6] = ix.accounts[2]

\* C26 (as claimed): no transaction handed to send_transaction carries a
\* swap instruction with placeholder accounts.
C26_NoPlaceholderSubmission ==
    \A i \in DOMAIN sent :
        \A ix \in SwapInstructions(sent[i].tx) : ~HasPlaceholderAccounts(ix)

ConfirmationOutcomes ==
    {Ok("confirmed"), Err("confirm", "failed"), Err("confirm", "timeout")}

LastSendAccepted == sent # <<>> /\ sent[Len(sent)].reply.tag = "Ok"

\* C29: a non-dry-run execute_buy signs only after the blockhash and the
\* transaction are there, sends only what was signed, polls only after an
\* accepted send, sends at most max_retries times, reaches exactly one of the
\* three confirmation outcomes after an accepted send, and ends unsigned and
\* unsent when the blockhash fetch or the construction failed.
C29_StagesInOrder ==
    /\ [](/\ signCount > 0 => blockhash # "unset" /\ transaction # NoTransaction
          /\ sent # <<>> => signCount = 1
          /\ Len(sent) <= max_retries
          /\ (polled \/ confResult # None \/ pc \in {"wfc_check", "wfc_status", "wfc_sleep", "wfc_done"})
                => LastSendAccepted
          /\ confResult # None => confResult \in ConfirmationOutcomes
          /\ (ExecuteBuyReturned /\ LastSendAccepted) => confResult # None
          /\ (result.tag = "Err" /\ result.stage \in {"blockhash", "build"})
                => signCount = 0 /\ sent = <<>> /\ ~polled)
    /\ [][/\ signCount' # signCount => pc = "sign" /\ sent = <<>>
          /\ sent' # sent => signCount = 1 /\ confResult = None /\ ~LastSendAccepted
          /\ confResult # None => confResult' = confResult]_vars

C29_Witness ==
    /\ pc = "reported"
    /\ ~config.dry_run
    /\ SendReplies = <<"Err", "Err", "Ok">>
    /\ confResult = Err("confirm", "timeout")

(***************************************************************************)
(* instructions.rs: the discriminator table and is_pool_initialization     *)
(***************************************************************************)
\* instructions.rs:19-31
INITIALIZE2 == <<175, 175, 109, 31, 13, 152, 155, 237>>
INITIALIZE == <<175, 175, 109, 31, 13, 152, 155, 237>>
SWAP == <<225, 226, 218, 232, 240, 105, 206, 129>>
CPMM_INITIALIZE == <<0, 0, 0, 0, 0, 0, 0, 0>>
CPMM_SWAP == <<0, 0, 0, 0, 0, 0, 0, 0>>

IsLegacyInitialization(data) ==
    IF Len(data) < Len(INITIALIZE) THEN FALSE
    ELSE LET discriminator == SubSeq(data, 1, Len(INITIALIZE)) IN
           discriminator = INITIALIZE \/ discriminator = INITIALIZE2

\* instructions.rs:158-167
is_pool_initialization(data) ==
    IF Len(data) < 8 THEN FALSE
    ELSE LET discriminator == SubSeq(data, 1, 8) IN
           \/ discriminator = INITIALIZE
           \/ discriminator = INITIALIZE2
           \/ discriminator = CPMM_INITIALIZE

MaxCodecCalls == 2

\* byte strings around the table: every prefix of an entry, every entry with
\* one byte altered, and each of these followed by instruction arguments
TableEntries == {INITIALIZE, INITIALIZE2, SWAP, CPMM_INITIALIZE, CPMM_SWAP}
EntryPrefixes == {SubSeq(d, 1, n) : d \in TableEntries, n \in 0..8}
AlteredEntries == {[d EXCEPT ![i] = (d[i] + 1) % 256] : d \in TableEntries, i \in 1..8}
ArgumentBytes == {<<>>, <<7>>, <<64, 66, 15, 0, 0, 0, 0, 0, 0, 0, 0, 0, 0, 0, 0, 0>>}
CodecInputs == {d \o a : d \in EntryPrefixes \cup AlteredEntries, a \in ArgumentBytes}

IsPoolInitializationCall ==
    /\ Len(recognised) < MaxCodecCalls
    /\ recognised' = Append(recognised, is_pool_initialization(ixBytes))
    /\ UNCHANGED <<config, execVars, detVars, mainVars, filterVars, pipeVars, ixBytes, ixn,
                   extracted, created, calcVars>>

InitCodec ==
    /\ config = DefaultConfig
    /\ event = NoEvent
    /\ IdleExec
    /\ InitDet
    /\ InitMainSelect
    /\ IdleFilter
    /\ IdlePipe
    /\ IdleCalc
    /\ ixBytes \in CodecInputs
    /\ recognised = <<>>
    /\ ixn = NoInstruction
    /\ extracted = NotCalled
    /\ created = NotCalled

NextCodec == IsPoolInitializationCall

SpecCodec == InitCodec /\ [][NextCodec]_vars

InitializeDiscriminators == {INITIALIZE, INITIALIZE2, CPMM_INITIALIZE}

\* C22: every answer of is_pool_initialization is true exactly when the data
\* has at least 8 bytes whose first 8 are an initialize discriminator of the
\* table, and two calls on the same data give the same answer.
C22_RecognisedIffKnownPrefix ==
    \A i \in DOMAIN recognised :
        /\ recognised[i] <=> /\ Len(ixBytes) >= 8
                             /\ \E d \in InitializeDiscriminators :
                                    \A k \in 1..8 : ixBytes[k] = d[k]
        /\ recognised[i] = recognised[1]

C22_Witness ==
    /\ recognised = <<TRUE, TRUE>>
    /\ Len(ixBytes) > 8
    /\ ixBytes[1] = 0

(***************************************************************************)
(* detector.rs: parse_pool_instruction, and instructions.rs:               *)
(* parse_pool_creation.  A call ends with None, with Some(pool data) or    *)
(* with a panic.                                                           *)
(***************************************************************************)
\* the value of a character in the alphabet, -1 outside of it
CharValue(c) ==
    IF \E i \in DOMAIN Base58Alphabet : Base58Alphabet[i] = c
    THEN (CHOOSE i \in DOMAIN Base58Alphabet : Base58Alphabet[i] = c) - 1
    ELSE -1

\* bs58 decode, the number: the digits of the text in base 58, most
\* significant first; the first `zeros` characters are '1', the digit 0
RECURSIVE Base58Value(_, _, _)
Base58Value(str, zeros, k) ==
    IF k <= zeros THEN <<>>
    ELSE BigMulLimb(Base58Value(str, zeros, k - 1), Len(Base58Alphabet), 1, CharValue(str[k]))

\* the byte of weight 256^b of a natural
ByteAt(x, b) ==
    ((Limb(x, (8 * b) \div LimbBits + 1) + Limb(x, (8 * b) \div LimbBits + 2) * LimbBase)
        \div 2 ^ ((8 * b) % LimbBits)) % 256

\* the big-endian bytes of a natural, none for zero
BigToBytes(x) ==
    LET n == (BitLen(x) + 7) \div 8 IN [i \in 1..n |-> ByteAt(x, n - i)]

LeadingOnes(str) ==
    Cardinality({k \in DOMAIN str : \A j \in 1..k : str[j] = Base58Alphabet[1]})

\* bs58::decode(..).into_vec(): a character outside the alphabet is an error;
\* every leading '1' is one zero byte in front of the number
Base58Decode(str) ==
    IF \E k \in DOMAIN str : CharValue(str[k]) < 0
    THEN Err("decode", "invalid_character")
    ELSE Ok(Zeros(LeadingOnes(str))
            \o BigToBytes(Base58Value(str, LeadingOnes(str), Len(str))))

PUBKEY_BYTES == 32
MAX_BASE58_LEN == 44

\* Pubkey::from_str: at most 44 characters that decode to exactly 32 bytes
PubkeyFromStr(str) ==
    IF Len(str) > MAX_BASE58_LEN THEN Err("pubkey", "wrong_size")
    ELSE LET decoded == Base58Decode(str) IN
           IF decoded.tag = "Err" THEN Err("pubkey", "invalid")
           ELSE IF Len(decoded.value) # PUBKEY_BYTES THEN Err("pubkey", "wrong_size")
           ELSE Ok(decoded.value)

\* slice[i] with a zero-based index: the element, or a panic past the end
IndexOrPanic(slice, i) == IF i + 1 \in DOMAIN slice THEN Some(slice[i + 1]) ELSE Panic

\* slice.get(i) with a zero-based index
Get(slice, i) == IF i + 1 \in DOMAIN slice THEN Some(slice[i + 1]) ELSE None

AnyIndexCount(account_indices) == TRUE

\* detector.rs:338: the test that lets the extraction go on
HasEnoughIndices(account_indices) == ~(Len(account_indices) < 4)

\* detector.rs:342-344, one line of the three:
\* Pubkey::from_str(account_keys.get(account_indices[k] as usize)?).ok()?
KeyAt(account_keys, account_indices, k) ==
    LET idx == IndexOrPanic(account_indices, k) IN
      IF idx.tag = "Panic" THEN Panic
      ELSE LET key == Get(account_keys, idx.value) IN
             IF key.tag = "None" THEN None
             ELSE LET pubkey == PubkeyFromStr(key.value) IN
                    IF pubkey.tag = "Err" THEN None ELSE Some(pubkey.value)

\* detector.rs:320-351
parse_pool_instruction(data, account_keys, account_indices, program_id) ==
    LET decoded == Base58Decode(data) IN
      IF decoded.tag = "Err" THEN None
      ELSE IF ~is_pool_initialization(decoded.value) THEN None
      ELSE IF ~HasEnoughIndices(account_indices) THEN None
      ELSE LET pool == KeyAt(account_keys, account_indices, 0) IN
        IF pool.tag # "Some" THEN pool
        ELSE LET amm == KeyAt(account_keys, account_indices, 1) IN
          IF amm.tag # "Some" THEN amm
          ELSE LET creator == KeyAt(account_keys, account_indices, 2) IN
            IF creator.tag # "Some" THEN creator
            ELSE Some([pool |-> pool.value, amm |-> amm.value, creator |-> creator.value])

\* instructions.rs:143-145, one line of the three:
\* accounts.get(instruction_account_indices[k] as usize)?.clone()
AccountAt(accounts, instruction_account_indices, k) ==
    LET idx == IndexOrPanic(instruction_account_indices, k) IN
      IF idx.tag = "Panic" THEN Panic ELSE Get(accounts, idx.value)

\* instructions.rs:132-147
parse_pool_creation(accounts, instruction_account_indices) ==
    IF Len(instruction_account_indices) < 5 THEN None
    ELSE LET pool == AccountAt(accounts, instruction_account_indices, 0) IN
      IF pool.tag # "Some" THEN pool
      ELSE LET amm == AccountAt(accounts, instruction_account_indices, 1) IN
        IF amm.tag # "Some" THEN amm
        ELSE LET creator == AccountAt(accounts, instruction_account_indices, 2) IN
          IF creator.tag # "Some" THEN creator
          ELSE Some([pool |-> pool.value, amm |-> amm.value, creator |-> creator.value])

\* config.rs:5, 8
RAYDIUM_AMM_V4_PROGRAM_ID ==
    <<"6","7","5","k","P","X","9","M","H","T","j","2","z","t","1","q","f","r","1","N","Y","H",
      "u","z","e","L","X","f","Q","M","9","H","2","4","w","F","S","U","t","1","M","p","8">>
RAYDIUM_CPMM_PROGRAM_ID ==
    <<"C","P","M","M","o","o","8","L","3","F","4","N","b","T","e","g","B","C","K","V","N","u",
      "n","g","g","L","7","H","1","Z","p","d","T","H","K","x","Q","B","5","q","K","P","1","C">>

\* detector.rs:37-40: the two program ids as PoolDetector::new parses them
amm_v4_program_id == PubkeyFromStr(RAYDIUM_AMM_V4_PROGRAM_ID).value
cpmm_program_id == PubkeyFromStr(RAYDIUM_CPMM_PROGRAM_ID).value

\* detector.rs:305-309
PoolTypeOf(program_id) == IF program_id = amm_v4_program_id THEN "AMMv4" ELSE "CPMM"

\* account keys as the RPC reply spells them: well-formed addresses, a key
\* with characters outside the alphabet, a key of one byte, a key of 45
\* characters
Ones(n) == [i \in 1..n |-> Base58Alphabet[1]]
KeyA == Ones(31) \o <<"2">>
KeyB == Ones(31) \o <<"3">>
KeyC == Ones(30) \o <<"z","z">>
KeyD == Ones(32)
BadCharKey == <<"0","x","l","I","O">>
ShortKey == <<"2">>
LongKey == Ones(45)

AccountKeyLists ==
    { <<>>,
      <<KeyA>>,
      <<KeyA, KeyB, KeyC>>,
      <<KeyA, KeyB, KeyC, KeyD>>,
      <<KeyA, BadCharKey, KeyC, KeyD>>,
      <<ShortKey, KeyB, KeyC, KeyD>>,
      <<KeyA, KeyB, LongKey, KeyD>> }

AccountIndexLists ==
    { <<>>,
      <<0>>,
      <<0, 1, 2>>,
      <<0, 1, 2, 3>>,
      <<0, 1, 2, 3, 4>>,
      <<0, 0, 0, 0>>,
      <<0, 1, 0, 3, 2>>,
      <<0, 1, 9, 3>>,
      <<255, 1, 2, 3, 4>>,
      <<3, 2, 1, 0, 0>> }

\* instruction data as the RPC reply spells it: the base58 text of
\* INITIALIZE, of INITIALIZE and one argument byte, of eight zero bytes, of
\* SWAP, of the first seven bytes of INITIALIZE, the empty text, and a text
\* with characters outside the alphabet
InstructionData ==
    { <<"W","P","N","H","s","F","P","y","E","M","r">>,
      <<"3","E","h","i","y","S","n","Y","P","B","y","1","Q">>,
      Ones(8),
      <<"e","n","N","x","j","w","p","K","H","y","J">>,
      <<"7","f","9","T","2","R","7","7","P","x">>,
      <<>>,
      <<"0","O","I","l">> }

ParseInputs ==
    [data : InstructionData, account_keys : AccountKeyLists,
     account_indices : AccountIndexLists, program_id : {amm_v4_program_id, cpmm_program_id}]

\* the keys of the list that are addresses, as a caller of
\* parse_pool_creation holds them
IsAddress(key) == PubkeyFromStr(key).tag = "Ok"
Addresses(account_keys) ==
    LET wellFormed == SelectSeq(account_keys, IsAddress) IN
      [i \in 1..Len(wellFormed) |-> PubkeyFromStr(wellFormed[i]).value]

ParsePoolInstruction ==
    /\ ixn # NoInstruction
    /\ extracted = NotCalled
    /\ extracted' = parse_pool_instruction(ixn.data, ixn.account_keys, ixn.account_indices,
                                           ixn.program_id)
    /\ UNCHANGED <<config, execVars, detVars, mainVars, filterVars, pipeVars, ixBytes,
                   recognised, ixn, created, calcVars>>

ParsePoolCreation ==
    /\ ixn # NoInstruction
    /\ created = NotCalled
    /\ created' = parse_pool_creation(Addresses(ixn.account_keys), ixn.account_indices)
    /\ UNCHANGED <<config, execVars, detVars, mainVars, filterVars, pipeVars, ixBytes,
                   recognised, ixn, extracted, calcVars>>

InitParse ==
    /\ config = DefaultConfig
    /\ IdleExec
    /\ InitDet
    /\ InitMainSelect
    /\ IdleFilter
    /\ IdlePipe
    /\ IdleCalc
    /\ ixBytes = <<>>
    /\ recognised = <<>>
    /\ ixn \in ParseInputs
    /\ extracted = NotCalled
    /\ created = NotCalled

NextParse ==
    \/ ParsePoolInstruction
    \/ ParsePoolCreation

SpecParse == InitParse /\ [][NextParse]_vars

\* the instruction data decodes to a pool initialization
IsPoolInit == LET decoded == Base58Decode(ixn.data) IN
                decoded.tag = "Ok" /\ is_pool_initialization(decoded.value)

\* some index among the first three points past the end of the key list
IndexOutOfRange == \E k \in 1..3 : k \in DOMAIN ixn.account_indices
                                   /\ ixn.account_indices[k] >= Len(ixn.account_keys)

\* C23: whatever the account keys, the account indices and the instruction
\* data are, parse_pool_instruction and parse_pool_creation end with None or
\* with pool data, never with a panic.
C23_ExtractionNeverPanics ==
    /\ extracted.tag \in {"NotCalled", "None", "Some"}
    /\ created.tag \in {"NotCalled", "None", "Some"}
    /\ (IndexOutOfRange \/ ~IsPoolInit) => extracted.tag \in {"NotCalled", "None"}
    /\ IndexOutOfRange => created.tag \in {"NotCalled", "None"}

C23_Witness ==
    /\ IsPoolInit
    /\ ixn.account_indices = <<0, 1, 9, 3>>
    /\ Len(ixn.account_keys) = 4
    /\ extracted = None
    /\ created = None

\* C27 (as claimed): the pool data that parse_transaction copies into the
\* emitted event has pairwise distinct pool, amm and creator.
C27_DistinctAddresses ==
    extracted.tag = "Some" =>
        /\ extracted.value.pool # extracted.value.amm
        /\ extracted.value.pool # extracted.value.creator
        /\ extracted.value.amm # extracted.value.creator

\* C28 (as claimed): pool data comes out of a legacy-AMM instruction only
\* with at least 4 account indices and out of a CPMM instruction only with
\* at least 5.
C28_MinimumIndicesPerVariant ==
    extracted.tag = "Some" =>
        IF PoolTypeOf(ixn.program_id) = "AMMv4"
        THEN Len(ixn.account_indices) >= 4
        ELSE Len(ixn.account_indices) >= 5

(***************************************************************************)
(* utils.rs: calculate_min_amount_out.  A u64 and the mantissa of an f64   *)
(* are naturals written as little-endian sequences of 15-bit limbs without *)
(* leading zero limbs; an f64 is mantissa * 2^exponent with a mantissa of  *)
(* at most 53 bits, and every f64 operation rounds to nearest, ties to     *)
(* even.                                                                   *)
(***************************************************************************)
\* floor(x / 2^s), and whether a one bit was shifted out
ShiftRightSticky(x, s) ==
    LET drop == s \div LimbBits
        dv   == BigDivSmall(SubSeq(x, drop + 1, Len(x)), 2 ^ (s % LimbBits))
    IN  [q |-> dv.q,
         sticky |-> dv.r # 0 \/ \E i \in DOMAIN x : i <= drop /\ x[i] # 0]

\* the f64 nearest to x * 2^e (plus a fraction below one unit of x when
\* sticky is set), ties to even
RoundToNearestEven(x, sticky, e) ==
    IF BitLen(x) <= MantissaBits THEN [m |-> x, e |-> e]
    ELSE LET s     == BitLen(x) - MantissaBits
             t     == ShiftRightSticky(x, s - 1)
             half  == BigDivSmall(t.q, 2)
             up    == half.r = 1 /\ (t.sticky \/ sticky \/ half.q[1] % 2 = 1)
         IN  [m |-> IF up THEN BigAdd(half.q, <<1>>) ELSE half.q, e |-> e + s]

\* `amount_out as f64`
F64FromU64(a) == RoundToNearestEven(a, FALSE, 0)

GuardShift == 70

\* `d as f64 / 10000.0` for a u16 d: the quotient is taken with 70 binary
\* places, which leaves more than 53 bits and a sticky bit to round
F64DivByDenominator(d) ==
    IF d = 0 THEN [m |-> <<>>, e |-> 0]
    ELSE LET dv == BigDivSmall(ShiftLeft(BigFromNat(d), GuardShift), BpsDenominator) IN
           RoundToNearestEven(dv.q, dv.r # 0, 0 - GuardShift)

F64Mul(x, y) == RoundToNearestEven(BigMul(x.m, y.m), FALSE, x.e + y.e)

\* `as u64`: truncation toward zero, saturating at u64::MAX
F64ToU64(x) ==
    IF x.m = <<>> THEN <<>>
    ELSE IF x.e >= 0
         THEN LET v == ShiftLeft(x.m, x.e) IN IF BitLen(v) > U64Bits THEN U64_MAX ELSE v
         ELSE ShiftRightSticky(x.m, 0 - x.e).q

\* utils.rs:56-57 after the subtraction
ScaledBySlippage(amount_out, difference) ==
    F64ToU64(F64Mul(F64FromU64(amount_out), F64DivByDenominator(difference)))

\* utils.rs:55-58: the outcomes of one call
calculate_min_amount_out(amount_out, slippage_bps) ==
    {IF d.tag = "Panic" THEN Panic ELSE Ok(ScaledBySlippage(amount_out, d.value)) :
        d \in SubtractFromDenominator(slippage_bps)}

MaxCalcCalls == 2

\* amounts from 0 to u64::MAX, among them the default buy amount of 0.1 SOL
\* in lamports, 2^53 and 2^53 + 1
Amounts ==
    { <<>>, BigFromNat(1), BigFromNat(99), BigFromNat(100), BigFromNat(1000000),
      BigFromNat(100000000), ShiftLeft(<<1>>, MantissaBits),
      BigAdd(ShiftLeft(<<1>>, MantissaBits), <<1>>), U64_MAX }

\* u16 values of slippage_bps, among them the default 50 and values past 10000
SlippageValues == {0, 1, 50, 4200, 7100, 9999, 10000, 10001, 65535}

CalculateMinAmountOut ==
    /\ calcIn # NoCalc
    /\ calcOut = NotCalled
    /\ \E outcome \in calculate_min_amount_out(calcIn.amount_out, calcIn.slippage_bps) :
         /\ calcOut' = outcome
         /\ calcLog' = calcLog \cup {[slippage_bps |-> calcIn.slippage_bps, out |-> outcome]}
    /\ UNCHANGED <<config, execVars, detVars, mainVars, filterVars, pipeVars, codecVars, calcIn>>

\* the caller comes back with the same amount and another slippage_bps
CalculateAgain ==
    /\ calcOut # NotCalled
    /\ Cardinality(calcLog) < MaxCalcCalls
    /\ \E bps \in SlippageValues \ {r.slippage_bps : r \in calcLog} :
         calcIn' = [calcIn EXCEPT !.slippage_bps = bps]
    /\ calcOut' = NotCalled
    /\ UNCHANGED <<config, execVars, detVars, mainVars, filterVars, pipeVars, codecVars, calcLog>>

InitCalc ==
    /\ config = DefaultConfig
    /\ IdleExec
    /\ InitDet
    /\ InitMainSelect
    /\ IdleFilter
    /\ IdlePipe
    /\ IdleCodec
    /\ calcIn \in [amount_out : Amounts, slippage_bps : SlippageValues]
    /\ calcOut = NotCalled
    /\ calcLog = {}

NextCalc ==
    \/ CalculateMinAmountOut
    \/ CalculateAgain

SpecCalc == InitCalc /\ [][NextCalc]_vars

\* C24 (as claimed): of two calls with the same amount the one with the
\* larger slippage_bps returns no more than the other, and a call with
\* slippage_bps = 0 returns the amount.
C24_MonotoneAndIdentityAtZero ==
    /\ \A r1, r2 \in calcLog :
         r1.slippage_bps <= r2.slippage_bps =>
            /\ r1.out.tag = "Ok"
            /\ r2.out.tag = "Ok"
            /\ BigLeq(r2.out.value, r1.out.value)
    /\ \A r \in calcLog : r.slippage_bps = 0 => r.out = Ok(calcIn.amount_out)

\* expected_output * (10000 - slippage_bps) / 10000 in integers
TruncatedQuotient(expected_output, slippage_bps) ==
    BigDivSmall(BigMul(expected_output, BigFromNat(BpsDenominator - slippage_bps)),
                BpsDenominator).q

\* C25 (as claimed): with slippage_bps in 0..10000 the call returns
\* expected_output * (10000 - slippage_bps) / 10000 truncated.
C25_EqualsTruncatedQuotient ==
    \A r \in calcLog :
        r.slippage_bps <= BpsDenominator =>
            r.out = Ok(TruncatedQuotient(calcIn.amount_out, r.slippage_bps))

(***************************************************************************)
(* Properties of the budget instructions, of the seen set, of the loop's   *)
(* progress and of the slippage bound                                      *)
(***************************************************************************)
InstructionKinds(tx) == [i \in DOMAIN tx.instructions |-> tx.instructions[i].kind]

\* C31 (as claimed): a signed transaction holds the compute-unit price, the
\* compute-unit limit and the swap, in this order, and the price is not
\* below config.priority_fee_micro_lamports.
C31_BudgetBeforeSwapPriceAtLeastBase ==
    signCount > 0 =>
        /\ InstructionKinds(signedTx) =
               <<"set_compute_unit_price", "set_compute_unit_limit", "cpmm_swap">>
        /\ BigLeq(config.priority_fee_micro_lamports, signedTx.instructions[1].arg)

FetchedSignatures == {fetched[i].signature : i \in DOMAIN fetched}

\* C32: when a round of the polling task has ended, every signature it
\* examined (fetched or skipped) is in last_signatures; no signature is
\* handed to get_transaction twice; and a signature whose fetch failed has
\* no event.
C32_ExaminedOnceThenSeen ==
    /\ ppc = "sleep" => (FetchedSignatures \cup skipped) \subseteq last_signatures
    /\ \A i, j \in DOMAIN fetched :
         fetched[i].signature = fetched[j].signature => i = j
    /\ \A i \in DOMAIN fetched :
         fetched[i].ended = "fetch_failed" =>
             \A j \in DOMAIN emitted : emitted[j].signature # fetched[i].signature

\* a failed fetch of sigA in the first round, sigA offered again and skipped
\* in the second
C32_Witness ==
    /\ pollRound = 2
    /\ ppc = "sleep"
    /\ \E i \in DOMAIN fetched :
         fetched[i] = [signature |-> "sigA", ended |-> "fetch_failed"]
    /\ "sigA" \in skipped
    /\ emitted # <<>>

\* C33 (as claimed): the task of run_snipe_loop stays in its loop whatever
\* an event's handling gives, and every event the adapter queued is
\* eventually evaluated.
C33_LoopOutlivesEveryOutcome ==
    /\ [](opc # "panicked")
    /\ \A n \in 1..MaxTaken : (Len(emitted) >= n) ~> (Len(evaluated) >= n)

\* C34 (as claimed): for every amount and every u16 slippage_bps the call
\* completes with a value, the value is not greater than the amount, and
\* with slippage_bps = 10000 the value is 0.
C34_CompletesAndBoundedByAmount ==
    \A r \in calcLog :
        /\ r.out.tag = "Ok"
        /\ BigLeq(r.out.value, calcIn.amount_out)
        /\ r.slippage_bps = BpsDenominator => r.out.value = <<>>

====
